---- MODULE Spec2Model ----
(***************************************************************************)
(* Verification model of the Reach engine: the Requiem wire protocol       *)
(* (frame codec, resilient parser, connection handler) and the ranking     *)
(* step of the decision kernel.                                            *)
(*                                                                         *)
(* Unsigned 32-bit quantities whose value may exceed 2^31 - 1 (flags,      *)
(* correlation id, payload length, CRC) are carried as their four          *)
(* little-endian bytes; everything on the wire is a sequence of bytes.     *)
(***************************************************************************)
EXTENDS Integers, Sequences, FiniteSets, TLC

VARIABLES
    \* ---- frame codec round trip (Frame::encode / Frame::decode) ----
    frame,              \* the frame handed to encode
    dst,                \* the byte buffer (encode's dst, decode's src)
    flipped,            \* index of the bit mutated in dst, or -1
    decoded,            \* result of Frame::decode, or NoResult
    \* ---- resilient parser (ResilientFrameParser::parse_resilient) ----
    src,                \* the parser's input buffer
    layout,             \* what the buffer was built from
    returned,           \* results of the successive parse_resilient calls
    \* ---- server: per connection (handle_connection locals) ----
    wire,               \* bytes written by the peer, not yet read
    peer,               \* transport status: "open", "closed", "reset"
    buf,                \* receive buffer
    connection_state,   \* ProtocolState
    session_id,         \* 0 = empty string, n = "sess-n"
    pc,                 \* position of the connection task
    pending,            \* Hello being handled between the two lock scopes
    out,                \* frames written to the peer, in order
    \* ---- server: shared ServerState ----
    connections,        \* keys of the connection table
    next_session_id,
    \* ---- server: observation ----
    sent,               \* number of frames the peer has sent per connection
    handled,            \* frames handed to handle_frame, in order
    assigned,           \* session ids assigned on each connection
    \* ---- decision kernel ----
    input,              \* the decision input
    output              \* the evaluation result, or NoResult

codecVars  == <<frame, dst, flipped, decoded>>
parserVars == <<src, layout, returned>>
connVars   == <<wire, peer, buf, connection_state, session_id, pc, pending, out>>
serverVars == <<connVars, connections, next_session_id, sent, handled, assigned>>
rankVars   == <<input, output>>
vars       == <<codecVars, parserVars, serverVars, rankVars>>

NoResult == [kind |-> "NoResult"]

-----------------------------------------------------------------------------
(* Bounds of the model *)

MaxPayloadLen == 2      \* longest payload of a frame drawn for the codec

-----------------------------------------------------------------------------
(* Little-endian integers *)

Byte == 0..255

U16le(n) == <<n % 256, n \div 256>>
U32le(n) == <<n % 256, (n \div 256) % 256, (n \div 65536) % 256, n \div 16777216>>

\* value of four little-endian bytes; only used when it is below 2^31
U32Value(b) == b[1] + 256 * b[2] + 65536 * b[3] + 16777216 * b[4]
U16Value(b) == b[1] + 256 * b[2]

Min(a, b) == IF a < b THEN a ELSE b

\* BytesMut::advance(n) / Buf::advance(n)
advance(bytes, n) == SubSeq(bytes, n + 1, Len(bytes))

-----------------------------------------------------------------------------
(* CRC32C (Castagnoli), as computed by the crc32c crate: reflected          *)
(* polynomial 0x82F63B78, initial value and final xor 0xFFFFFFFF.           *)

RECURSIVE XorBits(_, _, _)
XorBits(a, b, n) ==
    IF n = 0 THEN 0
    ELSE ((a + b) % 2) + 2 * XorBits(a \div 2, b \div 2, n - 1)

XorTable == [a \in Byte |-> [b \in Byte |-> XorBits(a, b, 8)]]
Xor8(a, b) == XorTable[a][b]
Xor32(u, v) == <<Xor8(u[1], v[1]), Xor8(u[2], v[2]), Xor8(u[3], v[3]), Xor8(u[4], v[4])>>

Shr1(u) == << (u[1] \div 2) + 128 * (u[2] % 2), (u[2] \div 2) + 128 * (u[3] % 2),
              (u[3] \div 2) + 128 * (u[4] % 2), u[4] \div 2 >>
Shr8(u) == <<u[2], u[3], u[4], 0>>

CrcPoly == <<120, 59, 246, 130>>        \* 0x82F63B78, little-endian bytes
AllOnes == <<255, 255, 255, 255>>

RECURSIVE CrcBitSteps(_, _)
CrcBitSteps(c, n) ==
    IF n = 0 THEN c
    ELSE CrcBitSteps(IF c[1] % 2 = 1 THEN Xor32(Shr1(c), CrcPoly) ELSE Shr1(c), n - 1)

CrcTable == [i \in Byte |-> CrcBitSteps(<<i, 0, 0, 0>>, 8)]

CrcStep(c, b) == Xor32(CrcTable[Xor8(c[1], b)], Shr8(c))

\* Hasher::update over a run of bytes (split in halves to keep evaluation shallow)
CrcUpdate[c \in Seq(Byte), bytes \in Seq(Byte)] ==
    IF Len(bytes) = 0 THEN c
    ELSE IF Len(bytes) = 1 THEN CrcStep(c, bytes[1])
    ELSE LET h == Len(bytes) \div 2
         IN  CrcUpdate[CrcUpdate[c, SubSeq(bytes, 1, h)], SubSeq(bytes, h + 1, Len(bytes))]

crc32c(bytes) == Xor32(CrcUpdate[AllOnes, bytes], AllOnes)

-----------------------------------------------------------------------------
(* Frame format: protocol/frame.rs *)

MAGIC == 1380270920                 \* 0x52454348
MAX_PAYLOAD_BYTES == 67108864       \* 64 * 1024 * 1024
HEADER_SIZE == 24
FOOTER_SIZE == 4
FRAME_OVERHEAD == HEADER_SIZE + FOOTER_SIZE
PROTOCOL_VERSION_MAJOR == 1
PROTOCOL_VERSION_MINOR == 0

MessageType == {"Heartbeat", "Hello", "HelloAck", "ExecRequest", "ExecResult",
                "HealthRequest", "HealthResult", "Error"}

to_u32(msg_type) ==
    CASE msg_type = "Heartbeat"     -> 0
      [] msg_type = "Hello"         -> 1
      [] msg_type = "HelloAck"      -> 2
      [] msg_type = "ExecRequest"   -> 16
      [] msg_type = "ExecResult"    -> 17
      [] msg_type = "HealthRequest" -> 32
      [] msg_type = "HealthResult"  -> 33
      [] msg_type = "Error"         -> 255

\* MessageType::from_u32 on the four little-endian bytes; "None" for unknown values
from_u32(raw) ==
    IF raw[2] # 0 \/ raw[3] # 0 \/ raw[4] # 0 THEN "None"
    ELSE CASE raw[1] = 0   -> "Heartbeat"
           [] raw[1] = 1   -> "Hello"
           [] raw[1] = 2   -> "HelloAck"
           [] raw[1] = 16  -> "ExecRequest"
           [] raw[1] = 17  -> "ExecResult"
           [] raw[1] = 32  -> "HealthRequest"
           [] raw[1] = 33  -> "HealthResult"
           [] raw[1] = 255 -> "Error"
           [] OTHER        -> "None"

\* struct Frame
Frame(major, minor, msg_type, flags, correlation_id, payload) ==
    [version_major |-> major, version_minor |-> minor, msg_type |-> msg_type,
     flags |-> flags, correlation_id |-> correlation_id, payload |-> payload]

\* Frame::new followed by with_correlation_id
NewFrame(msg_type, payload, correlation_id) ==
    Frame(PROTOCOL_VERSION_MAJOR, PROTOCOL_VERSION_MINOR, msg_type,
          U32le(0), correlation_id, payload)

\* calculate_crc leaving the flags out of the hash
calculate_crc_no_flags(f) ==
    crc32c(U32le(MAGIC)
           \o U16le(f.version_major) \o U16le(f.version_minor)
           \o U32le(to_u32(f.msg_type))
           \o f.correlation_id
           \o U32le(Len(f.payload))
           \o f.payload)

\* Frame::calculate_crc: the fields are hashed in wire order
calculate_crc(f) ==
    crc32c(U32le(MAGIC)
           \o U16le(f.version_major) \o U16le(f.version_minor)
           \o U32le(to_u32(f.msg_type))
           \o f.flags
           \o f.correlation_id
           \o U32le(Len(f.payload))
           \o f.payload)

\* encode writing the correlation id before the flags
encode_swapped_ids(f) ==
    U32le(MAGIC)
    \o U16le(f.version_major) \o U16le(f.version_minor)
    \o U32le(to_u32(f.msg_type))
    \o f.correlation_id
    \o f.flags
    \o U32le(Len(f.payload))
    \o f.payload
    \o calculate_crc(f)

\* Frame::encode: the bytes appended to dst
encode(f) ==
    U32le(MAGIC)
    \o U16le(f.version_major) \o U16le(f.version_minor)
    \o U32le(to_u32(f.msg_type))
    \o f.flags
    \o f.correlation_id
    \o U32le(Len(f.payload))
    \o f.payload
    \o calculate_crc(f)

\* payload_len > MAX_PAYLOAD_BYTES on the raw u32
PayloadTooLarge(raw_len) == raw_len[4] >= 128 \/ U32Value(raw_len) > MAX_PAYLOAD_BYTES

DecodeResult(kind, f, rest) == [kind |-> kind, frame |-> f, src |-> rest]

\* Frame::decode reading the header with the consuming get_u32_le of the
\* buffer instead of a peek: an error found in the header leaves the buffer
\* without it
decode_consuming_header(s) ==
    IF Len(s) < HEADER_SIZE THEN DecodeResult("None", NoResult, s)
    ELSE
    LET magic          == SubSeq(s, 1, 4)
        version_major  == U16Value(SubSeq(s, 5, 6))
        version_minor  == U16Value(SubSeq(s, 7, 8))
        msg_type       == from_u32(SubSeq(s, 9, 12))
        flags          == SubSeq(s, 13, 16)
        correlation_id == SubSeq(s, 17, 20)
        payload_len    == SubSeq(s, 21, 24)
    IN  IF magic # U32le(MAGIC) THEN DecodeResult("InvalidMagic", NoResult, advance(s, 4))
        ELSE IF msg_type = "None"
        THEN DecodeResult("UnknownMessageType", NoResult, advance(s, 12))
        ELSE IF PayloadTooLarge(payload_len)
        THEN DecodeResult("PayloadTooLarge", NoResult, advance(s, HEADER_SIZE))
        ELSE
        LET n               == U32Value(payload_len)
            total_frame_len == FRAME_OVERHEAD + n
        IN  IF Len(s) < total_frame_len
            THEN DecodeResult("None", NoResult, advance(s, HEADER_SIZE))
            ELSE
            LET payload      == SubSeq(s, HEADER_SIZE + 1, HEADER_SIZE + n)
                expected_crc == SubSeq(s, HEADER_SIZE + n + 1, HEADER_SIZE + n + 4)
                f            == Frame(version_major, version_minor, msg_type,
                                      flags, correlation_id, payload)
                rest         == advance(s, total_frame_len)
            IN  IF expected_crc # calculate_crc(f)
                THEN DecodeResult("CrcMismatch", NoResult, rest)
                ELSE DecodeResult("Frame", f, rest)

\* Frame::decode: the result and the buffer it leaves behind.
\* kind "Frame" is Ok(Some(frame)), "None" is Ok(None), the others are the errors.
decode(s) ==
    IF Len(s) < HEADER_SIZE THEN DecodeResult("None", NoResult, s)
    ELSE
    LET magic          == SubSeq(s, 1, 4)
        version_major  == U16Value(SubSeq(s, 5, 6))
        version_minor  == U16Value(SubSeq(s, 7, 8))
        msg_type_raw   == SubSeq(s, 9, 12)
        msg_type       == from_u32(msg_type_raw)
        flags          == SubSeq(s, 13, 16)
        correlation_id == SubSeq(s, 17, 20)
        payload_len    == SubSeq(s, 21, 24)
    IN  IF magic # U32le(MAGIC) THEN DecodeResult("InvalidMagic", NoResult, s)
        ELSE IF msg_type = "None" THEN DecodeResult("UnknownMessageType", NoResult, s)
        ELSE IF PayloadTooLarge(payload_len) THEN DecodeResult("PayloadTooLarge", NoResult, s)
        ELSE
        LET n               == U32Value(payload_len)
            total_frame_len == FRAME_OVERHEAD + n
        IN  IF Len(s) < total_frame_len THEN DecodeResult("None", NoResult, s)
            ELSE
            LET payload      == SubSeq(s, HEADER_SIZE + 1, HEADER_SIZE + n)
                expected_crc == SubSeq(s, HEADER_SIZE + n + 1, HEADER_SIZE + n + 4)
                f            == Frame(version_major, version_minor, msg_type,
                                      flags, correlation_id, payload)
                rest         == advance(s, total_frame_len)
            IN  IF expected_crc # calculate_crc(f)
                THEN DecodeResult("CrcMismatch", NoResult, rest)
                ELSE DecodeResult("Frame", f, rest)

\* find_magic reporting the last occurrence instead of the first
find_magic_last(s) ==
    LET hits == {i \in 1..(Len(s) - 3) : SubSeq(s, i, i + 3) = U32le(MAGIC)}
    IN  IF hits = {} THEN -1
        ELSE (CHOOSE i \in hits : \A j \in hits : i >= j) - 1

\* find_magic: offset of the first occurrence of the magic bytes, or -1 for None
find_magic(s) ==
    LET hits == {i \in 1..(Len(s) - 3) : SubSeq(s, i, i + 3) = U32le(MAGIC)}
    IN  IF hits = {} THEN -1
        ELSE (CHOOSE i \in hits : \A j \in hits : i <= j) - 1

-----------------------------------------------------------------------------
(* Codec round trip: a frame is encoded, one bit of the bytes may be       *)
(* mutated, and the bytes are decoded.                                     *)

CodecPayloads == UNION {[1..n -> {0, 72}] : n \in 0..MaxPayloadLen}

\* (version_major, version_minor, flags, correlation_id) samples
CodecHeaders == { <<1, 0, U32le(0), U32le(0)>>,
                  <<2, 3, U32le(4), U32le(1)>>,
                  <<65535, 65535, AllOnes, AllOnes>> }

CodecFrames ==
    { Frame(h[1], h[2], t, h[3], h[4], p) :
        h \in CodecHeaders, t \in MessageType, p \in CodecPayloads }

\* one bit of one byte inverted
FlipBit(bytes, k) ==
    LET i == (k \div 8) + 1
        w == 2 ^ (k % 8)
        b == bytes[i]
    IN  [bytes EXCEPT ![i] = IF (b \div w) % 2 = 1 THEN b - w ELSE b + w]

CodecInit ==
    /\ frame \in CodecFrames
    /\ dst = <<>>
    /\ flipped = -1
    /\ decoded = NoResult

Encode ==
    /\ dst = <<>> /\ decoded = NoResult
    /\ dst' = dst \o encode(frame)
    /\ UNCHANGED <<frame, flipped, decoded>>
    /\ UNCHANGED <<parserVars, serverVars, rankVars>>

Mutate ==
    /\ dst # <<>> /\ flipped = -1 /\ decoded = NoResult
    /\ \E k \in 0..(8 * Len(dst) - 1) :
          /\ dst' = FlipBit(dst, k)
          /\ flipped' = k
    /\ UNCHANGED <<frame, decoded>>
    /\ UNCHANGED <<parserVars, serverVars, rankVars>>

Decode ==
    /\ dst # <<>> /\ decoded = NoResult
    /\ LET r == decode(dst)
       IN  /\ decoded' = [kind |-> r.kind, frame |-> r.frame]
           /\ dst' = r.src
    /\ UNCHANGED <<frame, flipped>>
    /\ UNCHANGED <<parserVars, serverVars, rankVars>>

-----------------------------------------------------------------------------
(* Resilient parser: protocol/frame.rs, ResilientFrameParser *)

max_resync_attempts == 3        \* ResilientFrameParser::default
ClearThreshold == 4096          \* "clear buffer if it's getting large"

\* ResilientFrameParser::parse_resilient: the loop, entered with the number of
\* attempts made so far.  kind "Frame"/"None" is Ok(..), any other kind is Err(kind).
RECURSIVE ParseLoop(_, _)
ParseLoop(s, attempts) ==
    LET r == decode(s)
    IN  IF r.kind \in {"Frame", "None"} THEN r
        ELSE
        LET n   == attempts + 1
            pos == find_magic(r.src)
        IN  IF n > max_resync_attempts THEN r
            ELSE IF pos > 0 THEN ParseLoop(advance(r.src, pos), n)
            ELSE IF pos = -1
                 THEN DecodeResult("None", NoResult,
                                   IF Len(r.src) > ClearThreshold THEN <<>> ELSE r.src)
            ELSE r

parse_resilient(s) == ParseLoop(s, 0)

-----------------------------------------------------------------------------
(* Parser runs: a buffer garbage || encode(F1) [|| encode(F2)] is handed   *)
(* to parse_resilient again and again.                                     *)

MaxCalls == 4           \* number of parse_resilient calls made on one buffer

\* a header with valid magic and the unknown message type 0x9999, no payload,
\* followed by the CRC32C of its 24 bytes
UnknownTypeHeader ==
    U32le(MAGIC) \o U16le(1) \o U16le(0) \o U32le(39321) \o U32le(0) \o U32le(0) \o U32le(0)
UnknownTypeFrame == UnknownTypeHeader \o crc32c(UnknownTypeHeader)

\* a well-formed frame whose CRC trailer is wrong
BadCrcFrame ==
    LET good == encode(NewFrame("Heartbeat", <<>>, U32le(9)))
    IN  FlipBit(good, 8 * (Len(good) - 1))

ParserGarbage ==
    { <<>>,
      <<103>>,
      <<103, 97, 114, 98, 97, 103, 101>>,
      <<72, 67, 69>>,
      [i \in 1..30 |-> 255],
      BadCrcFrame,
      U32le(MAGIC),
      <<103>> \o U32le(MAGIC) \o <<103>>,
      UnknownTypeFrame }

ParserFrames ==
    { NewFrame("Hello", <<1, 0, 1, 0>>, U32le(1)),
      NewFrame("ExecRequest", U32le(MAGIC), U32le(2)),
      NewFrame("Heartbeat", <<>>, U32le(0)) }

ParserLayouts ==
    { [garbage |-> g, frames |-> fs] :
        g \in ParserGarbage,
        fs \in ([1..1 -> ParserFrames] \cup [1..2 -> ParserFrames]) }

LayoutBytes(l) ==
    l.garbage \o encode(l.frames[1])
              \o (IF Len(l.frames) = 2 THEN encode(l.frames[2]) ELSE <<>>)

ParserInit ==
    /\ layout \in ParserLayouts
    /\ src = LayoutBytes(layout)
    /\ returned = <<>>

ParseCall ==
    /\ Len(returned) < MaxCalls
    /\ LET r == parse_resilient(src)
       IN  /\ src' = r.src
           /\ returned' = Append(returned, [kind |-> r.kind, frame |-> r.frame])
    /\ UNCHANGED layout
    /\ UNCHANGED <<codecVars, serverVars, rankVars>>

-----------------------------------------------------------------------------
(* Message payloads: protocol/message.rs.  The CBOR form of a payload is    *)
(* abstracted to the fields the server looks at, one byte each:             *)
(*   Hello          <<min_major, min_minor, max_major, max_minor>>          *)
(*   ExecRequest    <<run_id>>                                              *)
(*   HealthRequest  <<detailed>>                                            *)
(*   HelloAck       <<selected_major, selected_minor, session>>             *)
(*   ExecResult     <<run_id, session>>                                     *)
(*   HealthResult   <<status>>                                              *)
(*   Error          code as two little-endian bytes, then <<session>>       *)
(* A payload of any other shape fails to deserialize.                       *)

\* parse_frame::<T>: does the payload deserialize as the payload type of msg_type
ParseOk(msg_type, payload) ==
    CASE msg_type = "Hello"         -> Len(payload) = 4
      [] msg_type = "ExecRequest"   -> Len(payload) = 1
      [] msg_type = "HealthRequest" -> Len(payload) = 1 /\ payload[1] \in {0, 1}
      [] OTHER                      -> FALSE

\* HelloPayload
HelloPayload(payload) ==
    [min_version |-> <<payload[1], payload[2]>>, max_version |-> <<payload[3], payload[4]>>]

\* HelloPayload::supports_version
supports_version(hello, major, minor) ==
    LET min_major == hello.min_version[1]
        min_minor == hello.min_version[2]
        max_major == hello.max_version[1]
        max_minor == hello.max_version[2]
    IN  IF major < min_major \/ major > max_major THEN FALSE
        ELSE IF major = min_major /\ minor < min_minor THEN FALSE
        ELSE IF major = max_major /\ minor > max_minor THEN FALSE
        ELSE TRUE

\* ErrorCode
InvalidMessage == 100
UnsupportedVersion == 101
InternalError == 300

\* create_error_frame: the code is chosen from the ProtocolError variant
create_error_frame(error, sid, correlation_id) ==
    LET code == CASE error = "VersionNegotiationFailed" -> UnsupportedVersion
                  [] error = "CapabilityMismatch"       -> UnsupportedVersion
                  [] error = "NoSession"                -> InvalidMessage
                  [] error = "UnexpectedMessageType"    -> InvalidMessage
                  [] OTHER                              -> InternalError
    IN  NewFrame("Error", U16le(code) \o <<sid>>, correlation_id)

\* HelloAckPayload::new framed as the response to a Hello
HelloAckFrame(sid, correlation_id) ==
    NewFrame("HelloAck", <<1, 0, sid>>, correlation_id)

\* process_execution framed as the response to an ExecRequest
ExecResultFrame(run_id, sid, correlation_id) ==
    NewFrame("ExecResult", <<run_id, sid>>, correlation_id)

\* the HealthResultPayload built by handle_frame (status Healthy)
HealthResultFrame(correlation_id) ==
    NewFrame("HealthResult", <<0>>, correlation_id)

\* handle_frame for every message type but Hello: Ok(Some(response)), Ok(None)
\* or Err(error).  It changes neither the protocol state nor the session.
handle_frame(f, state, sid) ==
    CASE f.msg_type = "ExecRequest" ->
            IF state # "Ready" THEN [kind |-> "Err", error |-> "NoSession"]
            ELSE IF ~ParseOk("ExecRequest", f.payload)
                 THEN [kind |-> "Err", error |-> "Encoding"]
            ELSE [kind |-> "Some",
                  response |-> ExecResultFrame(f.payload[1], sid, f.correlation_id)]
      [] f.msg_type = "HealthRequest" ->
            IF ~ParseOk("HealthRequest", f.payload)
            THEN [kind |-> "Err", error |-> "Encoding"]
            ELSE [kind |-> "Some", response |-> HealthResultFrame(f.correlation_id)]
      [] f.msg_type = "Heartbeat" -> [kind |-> "None"]
      [] OTHER -> [kind |-> "Err", error |-> "UnexpectedMessageType"]

-----------------------------------------------------------------------------
(* Server: server.rs.  One task per connection runs handle_connection; the  *)
(* tasks share ServerState.  A task is at "read" (awaiting read_buf), at    *)
(* "parse" (in the frame loop), at "insert" (between the two lock scopes of *)
(* the Hello handler), or has returned: "closed" after the clean-up at the  *)
(* end of handle_connection, "failed" after an early return Err(..).        *)

MaxSend == 3            \* frames or byte runs a peer sends on one connection

Conns == DOMAIN pc

\* frames a client may send as its k-th message; the correlation id is k
ClientFrames(k) ==
    { NewFrame("Hello", <<1, 0, 1, 0>>, U32le(k)),
      NewFrame("Hello", <<2, 0, 2, 3>>, U32le(k)),
      NewFrame("Hello", <<>>, U32le(k)),
      NewFrame("ExecRequest", <<7>>, U32le(k)),
      NewFrame("HealthRequest", <<1>>, U32le(k)),
      NewFrame("Heartbeat", <<>>, U32le(k)),
      NewFrame("HelloAck", <<1, 0, 9>>, U32le(k)),
      NewFrame("Error", <<100, 0, 0>>, U32le(k)) }

\* byte runs that are not well-formed frames
ClientNoise == { [i \in 1..HEADER_SIZE |-> 103], BadCrcFrame, UnknownTypeFrame }

\* write_all + flush of one encoded frame: the frame joins what the peer receives
write_all(written, f) == Append(written, f)

ConnInit(cs) ==
    /\ wire = [c \in cs |-> <<>>]
    /\ peer = [c \in cs |-> "open"]
    /\ buf = [c \in cs |-> <<>>]
    /\ connection_state = [c \in cs |-> "Disconnected"]
    /\ session_id = [c \in cs |-> 0]
    /\ pc = [c \in cs |-> "read"]
    /\ pending = [c \in cs |-> 0]
    /\ out = [c \in cs |-> <<>>]
    /\ connections = {}
    /\ next_session_id = 1
    /\ sent = [c \in cs |-> <<>>]
    /\ handled = [c \in cs |-> <<>>]
    /\ assigned = [c \in cs |-> {}]

\* ---- the peer ----

ClientSend(c, item, bytes) ==
    /\ peer[c] = "open" /\ Len(sent[c]) < MaxSend
    /\ wire' = [wire EXCEPT ![c] = @ \o bytes]
    /\ sent' = [sent EXCEPT ![c] = Append(@, item)]
    /\ UNCHANGED <<peer, buf, connection_state, session_id, pc, pending, out,
                   connections, next_session_id, handled, assigned>>
    /\ UNCHANGED <<codecVars, parserVars, rankVars>>

\* the encoded forms of the frames a client may send, by position in its stream
ClientWire ==
    [k \in 1..(MaxSend + 1) |-> {[frame |-> f, bytes |-> encode(f)] : f \in ClientFrames(k)}]

SendFrame(c) == \E m \in ClientWire[Len(sent[c]) + 1] : ClientSend(c, m.frame, m.bytes)

Noise == [msg_type |-> "None"]

SendNoise(c) == \E g \in ClientNoise : ClientSend(c, Noise, g)

\* the peer shuts down its sending side: the server's next read at end of data is Ok(0)
ClientClose(c) ==
    /\ peer[c] = "open"
    /\ peer' = [peer EXCEPT ![c] = "closed"]
    /\ UNCHANGED <<wire, buf, connection_state, session_id, pc, pending, out,
                   connections, next_session_id, sent, handled, assigned>>
    /\ UNCHANGED <<codecVars, parserVars, rankVars>>

\* the transport breaks: every later read and write returns an I/O error
ClientReset(c) ==
    /\ peer[c] \in {"open", "closed"} /\ pc[c] \notin {"closed", "failed"}
    /\ peer' = [peer EXCEPT ![c] = "reset"]
    /\ wire' = [wire EXCEPT ![c] = <<>>]
    /\ UNCHANGED <<buf, connection_state, session_id, pc, pending, out,
                   connections, next_session_id, sent, handled, assigned>>
    /\ UNCHANGED <<codecVars, parserVars, rankVars>>

\* ---- handle_connection ----

\* read_buf returns Ok(n), n > 0: the bytes are appended to buf
ReadData(c) ==
    /\ pc[c] = "read" /\ peer[c] # "reset" /\ wire[c] # <<>>
    /\ buf' = [buf EXCEPT ![c] = @ \o wire[c]]
    /\ wire' = [wire EXCEPT ![c] = <<>>]
    /\ pc' = [pc EXCEPT ![c] = "parse"]
    /\ UNCHANGED <<peer, connection_state, session_id, pending, out,
                   connections, next_session_id, sent, handled, assigned>>
    /\ UNCHANGED <<codecVars, parserVars, rankVars>>

\* read_buf returns Ok(0): break, then the clean-up at the end of handle_connection
ReadEof(c) ==
    /\ pc[c] = "read" /\ peer[c] = "closed" /\ wire[c] = <<>>
    /\ connections' = IF session_id[c] # 0 THEN connections \ {session_id[c]}
                      ELSE connections
    /\ pc' = [pc EXCEPT ![c] = "closed"]
    /\ UNCHANGED <<wire, peer, buf, connection_state, session_id, pending, out,
                   next_session_id, sent, handled, assigned>>
    /\ UNCHANGED <<codecVars, parserVars, rankVars>>

\* read_buf returns Err(e): return Err(ProtocolError::Io(e))
ReadError(c) ==
    /\ pc[c] = "read" /\ peer[c] = "reset"
    /\ pc' = [pc EXCEPT ![c] = "failed"]
    /\ UNCHANGED <<wire, peer, buf, connection_state, session_id, pending, out,
                   connections, next_session_id, sent, handled, assigned>>
    /\ UNCHANGED <<codecVars, parserVars, rankVars>>

\* encode + write_all + flush of a frame; an I/O error is propagated by `?`
Write(c, f) ==
    IF peer[c] = "reset"
    THEN /\ pc' = [pc EXCEPT ![c] = "failed"]
         /\ out' = out
    ELSE /\ pc' = [pc EXCEPT ![c] = "parse"]
         /\ out' = [out EXCEPT ![c] = write_all(@, f)]

\* the Hello handler taking next_session_id without advancing it
HelloBegin_stale_counter(c, f, rest) ==
    /\ buf' = [buf EXCEPT ![c] = rest]
    /\ handled' = [handled EXCEPT ![c] = Append(@, [frame |-> f, state |-> connection_state[c]])]
    /\ IF ~ParseOk("Hello", f.payload)
       THEN /\ Write(c, create_error_frame("Encoding", session_id[c], f.correlation_id))
            /\ UNCHANGED <<next_session_id, pending>>
       ELSE /\ next_session_id' = next_session_id
            /\ pending' = [pending EXCEPT ![c] = [id |-> next_session_id, frame |-> f]]
            /\ pc' = [pc EXCEPT ![c] = "insert"]
            /\ out' = out
    /\ UNCHANGED <<wire, peer, connection_state, session_id, connections, sent, assigned>>

\* codec.decode returned Ok(Some(frame)) with a Hello: handle_frame parses the
\* payload and, in its first lock scope, takes the next session id
HelloBegin(c, f, rest) ==
    /\ buf' = [buf EXCEPT ![c] = rest]
    /\ handled' = [handled EXCEPT ![c] = Append(@, [frame |-> f, state |-> connection_state[c]])]
    /\ IF ~ParseOk("Hello", f.payload)
       THEN /\ Write(c, create_error_frame("Encoding", session_id[c], f.correlation_id))
            /\ UNCHANGED <<next_session_id, pending>>
       ELSE /\ next_session_id' = next_session_id + 1
            /\ pending' = [pending EXCEPT ![c] = [id |-> next_session_id, frame |-> f]]
            /\ pc' = [pc EXCEPT ![c] = "insert"]
            /\ out' = out
    /\ UNCHANGED <<wire, peer, connection_state, session_id, connections, sent, assigned>>

\* codec.decode returned Ok(Some(frame)) with any other message type
OtherFrame(c, f, rest) ==
    /\ buf' = [buf EXCEPT ![c] = rest]
    /\ handled' = [handled EXCEPT ![c] = Append(@, [frame |-> f, state |-> connection_state[c]])]
    /\ LET r == handle_frame(f, connection_state[c], session_id[c])
       IN  CASE r.kind = "Some" -> Write(c, r.response)
             [] r.kind = "None" -> pc' = pc /\ out' = out
             [] r.kind = "Err"  ->
                    Write(c, create_error_frame(r.error, session_id[c], f.correlation_id))
    /\ UNCHANGED <<wire, peer, connection_state, session_id, pending,
                   connections, next_session_id, sent, assigned>>

\* one pass of the frame loop of handle_connection
Parse(c) ==
    /\ pc[c] = "parse"
    /\ LET r == decode(buf[c])
       IN  CASE r.kind = "Frame" ->
                    IF r.frame.msg_type = "Hello"
                    THEN HelloBegin(c, r.frame, r.src)
                    ELSE OtherFrame(c, r.frame, r.src)
             [] r.kind = "None" ->
                    /\ pc' = [pc EXCEPT ![c] = "read"]
                    /\ UNCHANGED <<wire, peer, buf, connection_state, session_id, pending,
                                   out, connections, next_session_id, sent, handled, assigned>>
             [] r.kind = "InvalidMagic" ->
                    LET pos == find_magic(buf[c])
                    IN  /\ IF pos # -1
                           THEN IF pos > 0
                                THEN /\ buf' = [buf EXCEPT ![c] = advance(@, pos)]
                                     /\ pc' = pc
                                ELSE /\ buf' = buf
                                     /\ pc' = [pc EXCEPT ![c] = "read"]
                           ELSE /\ buf' = [buf EXCEPT ![c] = <<>>]
                                /\ pc' = [pc EXCEPT ![c] = "read"]
                        /\ UNCHANGED <<wire, peer, connection_state, session_id, pending,
                                       out, connections, next_session_id, sent, handled,
                                       assigned>>
             [] r.kind = "CrcMismatch" ->
                    /\ buf' = [buf EXCEPT ![c] = IF Len(r.src) > 4 THEN advance(r.src, 1)
                                                 ELSE r.src]
                    /\ UNCHANGED <<wire, peer, connection_state, session_id, pc, pending,
                                   out, connections, next_session_id, sent, handled, assigned>>
             [] OTHER ->
                    /\ pc' = [pc EXCEPT ![c] = "failed"]
                    /\ UNCHANGED <<wire, peer, buf, connection_state, session_id, pending,
                                   out, connections, next_session_id, sent, handled, assigned>>
    /\ UNCHANGED <<codecVars, parserVars, rankVars>>

\* the rest of the Hello handler: second lock scope (the table entry), the
\* connection's session id and state, and the HelloAck
HelloInsert(c) ==
    /\ pc[c] = "insert"
    /\ connections' = connections \cup {pending[c].id}
    /\ session_id' = [session_id EXCEPT ![c] = pending[c].id]
    /\ connection_state' = [connection_state EXCEPT ![c] = "Ready"]
    /\ assigned' = [assigned EXCEPT ![c] = @ \cup {pending[c].id}]
    /\ pending' = [pending EXCEPT ![c] = 0]
    /\ Write(c, HelloAckFrame(pending[c].id, pending[c].frame.correlation_id))
    /\ UNCHANGED <<wire, peer, buf, next_session_id, sent, handled>>
    /\ UNCHANGED <<codecVars, parserVars, rankVars>>

-----------------------------------------------------------------------------
(* Decision kernel: decision-engine/src/engine.rs and                       *)
(* engine-core/src/decision/classical.rs.  Ids are strings, carried as      *)
(* their bytes.  Utilities are whole numbers; values normalised to [0, 1]   *)
(* and composite scores are carried in units of FLOAT_PRECISION (1e-9), the *)
(* resolution float_normalize rounds them to.                               *)

MaxActions == 3         \* length of the list of actions of an input

FLOAT_PRECISION_INV == 1000000000

Range(s) == {s[i] : i \in 1..Len(s)}
MinOf(S) == CHOOSE x \in S : \A y \in S : x <= y
MaxOf(S) == CHOOSE x \in S : \A y \in S : x >= y
Range2(f) == {f[x] : x \in DOMAIN f}

\* String::cmp: byte-wise lexicographic order
RECURSIVE str_cmp(_, _)
str_cmp(a, b) ==
    IF Len(a) = 0 /\ Len(b) = 0 THEN "Equal"
    ELSE IF Len(a) = 0 THEN "Less"
    ELSE IF Len(b) = 0 THEN "Greater"
    ELSE IF a[1] < b[1] THEN "Less"
    ELSE IF a[1] > b[1] THEN "Greater"
    ELSE str_cmp(Tail(a), Tail(b))

\* slice::sort_by: a stable sort; an element goes after every element that
\* compares less and after the equal ones listed before it.  The comparator
\* is given as the set of pairs <<a, b>> for which it returns Less.
sort_by(s, less) ==
    LET pos(i) == 1 + Cardinality({j \in 1..Len(s) :
                        \/ <<s[j], s[i]>> \in less
                        \/ (j < i /\ <<s[i], s[j]>> \notin less)})
    IN  [k \in 1..Len(s) |-> s[CHOOSE i \in 1..Len(s) : pos(i) = k]]

\* round to nearest of n / d for n >= 0, d > 0 (f64::round of a quotient)
RoundDiv(n, d) == (2 * n + d) \div (2 * d)

\* build_utility_table: every listed pair starts at 0, outcomes are filled in
\* in order, and an outcome naming an unknown action or scenario is an error
build_utility_table(actions, scenarios, outcomes) ==
    LET aids == {a.id : a \in Range(actions)}
        sids == {sc.id : sc \in Range(scenarios)}
        bad == {k \in 1..Len(outcomes) :
                    outcomes[k][1] \notin aids \/ outcomes[k][2] \notin sids}
        entry(a, sc) ==
            LET ks == {k \in 1..Len(outcomes) : outcomes[k][1] = a /\ outcomes[k][2] = sc}
            IN  IF ks = {} THEN 0 ELSE outcomes[MaxOf(ks)][3]
    IN  IF bad # {}
        THEN [kind |-> "Err", error |-> "MissingOutcome",
              action |-> outcomes[MinOf(bad)][1], scenario |-> outcomes[MinOf(bad)][2]]
        ELSE [kind |-> "Ok",
              table |-> [a \in aids |-> [sc \in sids |-> entry(a, sc)]]]

compute_worst_case(utility_table) ==
    [a \in DOMAIN utility_table |-> MinOf(Range2(utility_table[a]))]

compute_adversarial_worst_case(utility_table, scenarios) ==
    LET adversarial_ids == {sc.id : sc \in {x \in Range(scenarios) : x.adversarial}}
    IN  [a \in DOMAIN utility_table |->
            IF adversarial_ids = {} THEN MinOf(Range2(utility_table[a]))
            ELSE MinOf({utility_table[a][sc] : sc \in adversarial_ids})]

compute_regret_table(utility_table, scenarios) ==
    LET max_per_scenario(sc) == MaxOf({utility_table[a][sc] : a \in DOMAIN utility_table})
    IN  [a \in DOMAIN utility_table |->
            [sc \in DOMAIN utility_table[a] |-> max_per_scenario(sc) - utility_table[a][sc]]]

compute_max_regret(regret_table) ==
    [a \in DOMAIN regret_table |-> MaxOf(Range2(regret_table[a]) \cup {0})]

\* normalize_to_range, in units of 1e-9
normalize_from_max(value, min_val, max_val) ==
    IF max_val = min_val THEN FLOAT_PRECISION_INV
    ELSE LET d == max_val - min_val
             p == max_val - value
         IN  p * (FLOAT_PRECISION_INV \div d) + RoundDiv(p * (FLOAT_PRECISION_INV % d), d)
normalize_to_range(value, min_val, max_val) ==
    IF max_val = min_val THEN FLOAT_PRECISION_INV
    ELSE LET d == max_val - min_val
             p == value - min_val
         IN  p * (FLOAT_PRECISION_INV \div d) + RoundDiv(p * (FLOAT_PRECISION_INV % d), d)

\* CompositeWeights::default, in tenths
worst_case_weight == 4
minimax_regret_weight == 4
adversarial_weight == 2

\* the composite score of evaluate_decision: the weighted sum of the three
\* normalised scores, rounded to 1e-9 by float_normalize
composite(normalized_wc, normalized_mr, normalized_adv) ==
    LET q(v) == v \div 10
        r(v) == v % 10
    IN  worst_case_weight * q(normalized_wc)
          + minimax_regret_weight * q(normalized_mr)
          + adversarial_weight * q(normalized_adv)
          + RoundDiv(worst_case_weight * r(normalized_wc)
                       + minimax_regret_weight * r(normalized_mr)
                       + adversarial_weight * r(normalized_adv), 10)

-----------------------------------------------------------------------------
(* Input fingerprint: decision-engine/src/determinism.rs.  Strings are      *)
(* their bytes.  A DecisionInput of the model has no id, constraints,       *)
(* evidence or meta (None), empty action labels and no scenario             *)
(* probability.                                                             *)

\* f64::round(value / FLOAT_PRECISION) * FLOAT_PRECISION on a whole number
float_normalize_whole(value) == value

\* format!("{}", n as i64) for n >= 0
RECURSIVE format_i64(_)
format_i64(n) ==
    IF n < 10 THEN <<48 + n>> ELSE format_i64(n \div 10) \o <<48 + (n % 10)>>

\* the replace chain of CanonicalValue::String: \ " \n \r \t are escaped
RECURSIVE escape(_)
escape(s) ==
    IF Len(s) = 0 THEN <<>>
    ELSE (CASE s[1] = 92 -> <<92, 92>>
            [] s[1] = 34 -> <<92, 34>>
            [] s[1] = 10 -> <<92, 110>>
            [] s[1] = 13 -> <<92, 114>>
            [] s[1] = 9  -> <<92, 116>>
            [] OTHER     -> <<s[1]>>) \o escape(Tail(s))

\* items.join(",")
RECURSIVE join(_)
join(items) ==
    IF Len(items) = 0 THEN <<>>
    ELSE IF Len(items) = 1 THEN items[1]
    ELSE items[1] \o <<44>> \o join(Tail(items))

\* the field names of the serialised types
FieldNames ==
    { <<97, 99, 116, 105, 111, 110, 115>>,                          \* "actions"
      <<99, 111, 110, 115, 116, 114, 97, 105, 110, 116, 115>>,      \* "constraints"
      <<101, 118, 105, 100, 101, 110, 99, 101>>,                    \* "evidence"
      <<109, 101, 116, 97>>,                                        \* "meta"
      <<111, 117, 116, 99, 111, 109, 101, 115>>,                    \* "outcomes"
      <<115, 99, 101, 110, 97, 114, 105, 111, 115>>,                \* "scenarios"
      <<105, 100>>,                                                 \* "id"
      <<108, 97, 98, 101, 108>>,                                    \* "label"
      <<97, 100, 118, 101, 114, 115, 97, 114, 105, 97, 108>>,       \* "adversarial"
      <<112, 114, 111, 98, 97, 98, 105, 108, 105, 116, 121>> }      \* "probability"

\* the place of each field name in the byte-wise order of String
KeyOrder ==
    [key \in FieldNames |-> Cardinality({o \in FieldNames : str_cmp(o, key) = "Less"})]

\* CanonicalValue::String(k).to_canonical_string() of each field name
KeyText ==
    [key \in FieldNames |-> <<34>> \o escape(key) \o <<34>>]

\* the keys of a BTreeMap<String, _> in iteration order
sorted_keys(map) ==
    [k \in 1..Cardinality(DOMAIN map) |->
        CHOOSE key \in DOMAIN map :
            Cardinality({o \in DOMAIN map : KeyOrder[o] < KeyOrder[key]}) = k - 1]

\* CanonicalValue::to_canonical_string
RECURSIVE to_canonical_string(_)
to_canonical_string(v) ==
    CASE v.t = "Null" -> <<110, 117, 108, 108>>
      [] v.t = "Bool" -> IF v.b THEN <<116, 114, 117, 101>> ELSE <<102, 97, 108, 115, 101>>
      [] v.t = "Number" -> format_i64(float_normalize_whole(v.n))
      [] v.t = "String" -> <<34>> \o escape(v.s) \o <<34>>
      [] v.t = "Array" ->
            <<91>> \o join([i \in 1..Len(v.items) |-> to_canonical_string(v.items[i])]) \o <<93>>
      [] v.t = "Object" ->
            LET keys == sorted_keys(v.map)
            IN  <<123>> \o join([i \in 1..Len(keys) |->
                                    KeyText[keys[i]] \o <<58>>
                                      \o to_canonical_string(v.map[keys[i]])]) \o <<125>>

CNull == [t |-> "Null"]
CBool(b) == [t |-> "Bool", b |-> b]
CNumber(n) == [t |-> "Number", n |-> n]
CString(s) == [t |-> "String", s |-> s]
CArray(items) == [t |-> "Array", items |-> items]
CObject(map) == [t |-> "Object", map |-> map]

\* serde_json::to_value of a DecisionInput (derive(Serialize) of types.rs)
to_value(in) ==
    CObject(
        (<<97, 99, 116, 105, 111, 110, 115>> :>                             \* "actions"
            CArray([i \in 1..Len(in.actions) |->
                CObject((<<105, 100>> :> CString(in.actions[i].id))         \* "id"
                     @@ (<<108, 97, 98, 101, 108>> :> CString(<<>>)))]))    \* "label"
     @@ (<<99, 111, 110, 115, 116, 114, 97, 105, 110, 116, 115>> :> CNull)  \* "constraints"
     @@ (<<101, 118, 105, 100, 101, 110, 99, 101>> :> CNull)                \* "evidence"
     @@ (<<109, 101, 116, 97>> :> CNull)                                    \* "meta"
     @@ (<<111, 117, 116, 99, 111, 109, 101, 115>> :>                       \* "outcomes"
            CArray([k \in 1..Len(in.outcomes) |->
                CArray(<<CString(in.outcomes[k][1]), CString(in.outcomes[k][2]),
                         CNumber(in.outcomes[k][3])>>)]))
     @@ (<<115, 99, 101, 110, 97, 114, 105, 111, 115>> :>                   \* "scenarios"
            CArray([i \in 1..Len(in.scenarios) |->
                CObject((<<97, 100, 118, 101, 114, 115, 97, 114, 105, 97, 108>> :>   \* "adversarial"
                            CBool(in.scenarios[i].adversarial))
                     @@ (<<105, 100>> :> CString(in.scenarios[i].id))
                     @@ (<<112, 114, 111, 98, 97, 98, 105, 108, 105, 116, 121>> :> CNull))])))

canonical_json(in) == to_canonical_string(to_value(in))

\* SHA-256 (crate sha2) is taken to be collision-free: the digest of a byte
\* string is identified by the byte string it was computed from
stable_hash(bytes) == [sha256_of |-> bytes]

compute_fingerprint(in) == stable_hash(canonical_json(in))

\* the comparator of ranked.sort_by in evaluate_decision: composite score
\* descending, then action id ascending
ranked_less_by_score_only(a, b) == a.composite_score > b.composite_score
ranked_less(a, b) ==
    \/ a.composite_score > b.composite_score
    \/ (a.composite_score = b.composite_score
          /\ str_cmp(a.action_id, b.action_id) = "Less")

evaluate_decision(in) ==
    IF Len(in.actions) = 0 THEN [kind |-> "Err", error |-> "NoActions"]
    ELSE IF Len(in.scenarios) = 0 THEN [kind |-> "Err", error |-> "NoScenarios"]
    ELSE
    LET built == build_utility_table(in.actions, in.scenarios, in.outcomes)
    IN  IF built.kind = "Err" THEN built
        ELSE
        LET utility_table == built.table
            worst_case_table == compute_worst_case(utility_table)
            regret_table == compute_regret_table(utility_table, in.scenarios)
            max_regret_table == compute_max_regret(regret_table)
            adversarial_table == compute_adversarial_worst_case(utility_table, in.scenarios)
            wc_min == MinOf(Range2(worst_case_table))
            wc_max == MaxOf(Range2(worst_case_table))
            mr_min == MinOf(Range2(max_regret_table))
            mr_max == MaxOf(Range2(max_regret_table))
            adv_min == MinOf(Range2(adversarial_table))
            adv_max == MaxOf(Range2(adversarial_table))
            scored == [i \in 1..Len(in.actions) |->
                LET action_id == in.actions[i].id
                IN  [action_id |-> action_id,
                     score_worst_case |-> worst_case_table[action_id],
                     score_minimax_regret |-> max_regret_table[action_id],
                     score_adversarial |-> adversarial_table[action_id],
                     composite_score |->
                         composite(normalize_to_range(worst_case_table[action_id], wc_min, wc_max),
                                   FLOAT_PRECISION_INV
                                     - normalize_to_range(max_regret_table[action_id], mr_min, mr_max),
                                   normalize_to_range(adversarial_table[action_id], adv_min, adv_max))]]
            sorted == sort_by(scored, {pr \in Range(scored) \X Range(scored) :
                                           ranked_less(pr[1], pr[2])})
        IN  [kind |-> "Ok",
             ranked_actions |-> [i \in 1..Len(sorted) |->
                 [action_id |-> sorted[i].action_id,
                  score_worst_case |-> sorted[i].score_worst_case,
                  score_minimax_regret |-> sorted[i].score_minimax_regret,
                  score_adversarial |-> sorted[i].score_adversarial,
                  composite_score |-> sorted[i].composite_score,
                  recommended |-> (i = 1),
                  rank |-> i]],
             determinism_fingerprint |-> compute_fingerprint(in),
             trace |-> [utility_table |-> utility_table]]

\* compute_flip_distances, distances in units of 1e-9: for each scenario the
\* first listed action other than the top one whose utility is nearest to
\* the top action's
compute_flip_distances(in, decision) ==
    LET recommended == {i \in 1..Len(decision.ranked_actions) : decision.ranked_actions[i].recommended}
        top_action == IF recommended = {} THEN <<>>
                      ELSE decision.ranked_actions[MinOf(recommended)].action_id
        table == decision.trace.utility_table
        utility(a, sc) == IF a \in DOMAIN table /\ sc \in DOMAIN table[a]
                          THEN table[a][sc] ELSE 0
        abs(x) == IF x < 0 THEN -x ELSE x
        distance(i, sc) == abs(utility(top_action, sc) - utility(in.actions[i].id, sc))
                               * (FLOAT_PRECISION_INV \div 100)
        alternatives == {i \in 1..Len(in.actions) : in.actions[i].id # top_action}
        best_alternative(sc) ==
            MinOf({i \in alternatives :
                      \A k \in alternatives : distance(i, sc) <= distance(k, sc)})
        flip_distances ==
            IF alternatives = {} THEN <<>>
            ELSE [j \in 1..Len(in.scenarios) |->
                     LET sc == in.scenarios[j].id
                     IN  [variable_id |-> sc,
                          flip_distance |-> distance(best_alternative(sc), sc),
                          new_top_action |-> in.actions[best_alternative(sc)].id]]
        less(a, b) == \/ a.flip_distance < b.flip_distance
                      \/ (a.flip_distance = b.flip_distance
                            /\ str_cmp(a.variable_id, b.variable_id) = "Less")
    IN  sort_by(flip_distances, {pr \in Range(flip_distances) \X Range(flip_distances) :
                                    less(pr[1], pr[2])})

\* ClassicalInput::actions and ClassicalInput::states as lists of ids
ActionsOf(in) == [i \in 1..Len(in.actions) |-> in.actions[i].id]
StatesOf(in) == [i \in 1..Len(in.scenarios) |-> in.scenarios[i].id]

\* ClassicalInput::outcomes
OutcomesOf(in) ==
    [pr \in {<<in.outcomes[k][1], in.outcomes[k][2]>> : k \in 1..Len(in.outcomes)} |->
        in.outcomes[MaxOf({k \in 1..Len(in.outcomes) :
            <<in.outcomes[k][1], in.outcomes[k][2]>> = pr})][3]]

\* ClassicalInput::validate: the first action, in list order, and its first
\* state, in list order, with no utility is reported
validate(in) ==
    LET actions == ActionsOf(in)
        states == StatesOf(in)
        has_map(a) == \E k \in 1..Len(in.outcomes) : in.outcomes[k][1] = a
        has(a, st) == \E k \in 1..Len(in.outcomes) :
                          in.outcomes[k][1] = a /\ in.outcomes[k][2] = st
        missing(i) == \/ ~has_map(actions[i])
                      \/ \E j \in 1..Len(states) : ~has(actions[i], states[j])
    IN  IF Len(actions) = 0 THEN [kind |-> "Err", error |-> "NoActions"]
        ELSE IF \E i \in 1..Len(actions) : missing(i)
        THEN LET i == MinOf({k \in 1..Len(actions) : missing(k)})
             IN  IF ~has_map(actions[i])
                 THEN [kind |-> "Err", error |-> "MissingOutcome",
                       action |-> actions[i], state |-> "ALL"]
                 ELSE [kind |-> "Err", error |-> "MissingOutcome",
                       action |-> actions[i],
                       state |-> states[MinOf({j \in 1..Len(states) :
                                    ~has(actions[i], states[j])})]]
        ELSE [kind |-> "Ok"]

\* classical.rs rank_desc: score descending, then id ascending
rank_desc(actions, scores) ==
    LET less(a, b) == \/ scores[a] > scores[b]
                      \/ (scores[a] = scores[b] /\ str_cmp(a, b) = "Less")
    IN  sort_by(actions, {pr \in Range(actions) \X Range(actions) : less(pr[1], pr[2])})

\* classical.rs maximin on the payoff matrix of the input: validate, the
\* minimum utility of each action over the states (min().unwrap() panics when
\* there is no state), rank_desc
maximin(in) ==
    LET actions == ActionsOf(in)
        states == StatesOf(in)
        outcomes == OutcomesOf(in)
        v == validate(in)
    IN  IF v.kind = "Err" THEN v
        ELSE IF Len(states) = 0 THEN [kind |-> "Panic"]
        ELSE LET min_util_per_action ==
                     [a \in Range(actions) |->
                         MinOf({outcomes[<<a, st>>] : st \in Range(states)})]
                 ranked == rank_desc(actions, min_util_per_action)
             IN  [kind |-> "Ok", ranking |-> ranked, recommended_action |-> ranked[1],
                  min_utility |-> min_util_per_action]

\* ---- inputs ----

ActionIds == { <<66>>, <<97, 49, 48>>, <<97, 50>> }      \* "B", "a10", "a2"
ScenarioIds == << <<115, 49>>, <<115, 50>> >>            \* "s1", "s2"
Utilities == {0, 1, 2}

\* lists of distinct action ids and, since evaluate_decision and validate do
\* not reject a repeated id, such lists with one of their ids listed again
ActionLists ==
    LET all == UNION {[1..n -> {[id |-> a] : a \in ActionIds}] : n \in 0..MaxActions}
        distinct(l, n) == \A i, j \in 1..n : l[i] = l[j] => i = j
    IN  {l \in all : distinct(l, Len(l) - 1)}

ScenarioLists ==
    { <<>>,
      << [id |-> ScenarioIds[1], adversarial |-> FALSE] >>,
      << [id |-> ScenarioIds[1], adversarial |-> FALSE],
         [id |-> ScenarioIds[2], adversarial |-> TRUE] >> }

\* every (action, scenario) pair of the three ids and two scenarios, in a fixed order
AllPairs ==
    << <<(<<66>>), ScenarioIds[1]>>, <<(<<66>>), ScenarioIds[2]>>,
       <<(<<97, 49, 48>>), ScenarioIds[1]>>, <<(<<97, 49, 48>>), ScenarioIds[2]>>,
       <<(<<97, 50>>), ScenarioIds[1]>>, <<(<<97, 50>>), ScenarioIds[2]>> >>

\* the outcome lists that give every listed pair one utility
OutcomeLists(actions, scenarios) ==
    LET pairs == SelectSeq(AllPairs, LAMBDA pr :
                     /\ pr[1] \in {a.id : a \in Range(actions)}
                     /\ pr[2] \in {sc.id : sc \in Range(scenarios)})
    IN  { [k \in 1..Len(pairs) |-> <<pairs[k][1], pairs[k][2], u[k]>>] :
              u \in [1..Len(pairs) -> Utilities] }

RankInit ==
    /\ \E al \in ActionLists, sl \in ScenarioLists :
           \E ol \in OutcomeLists(al, sl) :
               input = [actions |-> al, scenarios |-> sl, outcomes |-> ol]
    /\ output = NoResult

EvaluateDecision ==
    /\ input # NoResult /\ output = NoResult
    /\ output' = [api |-> "evaluate_decision", result |-> evaluate_decision(input)]
    /\ UNCHANGED input
    /\ UNCHANGED <<codecVars, parserVars, serverVars>>

Maximin ==
    /\ input # NoResult /\ output = NoResult
    /\ output' = [api |-> "maximin", result |-> maximin(input)]
    /\ UNCHANGED input
    /\ UNCHANGED <<codecVars, parserVars, serverVars>>

\* compute_flip_distances on an input and the output evaluate_decision gave
\* for it
ComputeFlipDistances ==
    /\ input # NoResult /\ output = NoResult
    /\ evaluate_decision(input).kind = "Ok"
    /\ output' = [api |-> "compute_flip_distances",
                  output |-> evaluate_decision(input),
                  result |-> compute_flip_distances(input, evaluate_decision(input))]
    /\ UNCHANGED input
    /\ UNCHANGED <<codecVars, parserVars, serverVars>>

-----------------------------------------------------------------------------
(* Classical algorithms: engine-core/src/decision/classical.rs.  A          *)
(* ClassicalInput is carried in the shape of a decision input: the states   *)
(* are the scenarios, and the outcomes map holds, for each pair listed in   *)
(* outcomes, the utility listed last.                                       *)

\* the (action, state) cells of the matrix in the order the nested loops of
\* nash visit them
Cells(actions, states) ==
    [k \in 1..(Len(actions) * Len(states)) |->
        <<actions[((k - 1) \div Len(states)) + 1], states[((k - 1) % Len(states)) + 1]>>]

\* Ord for (String, String): by action id, then by state id
pair_less_descending(p, q) ==
    \/ str_cmp(p[1], q[1]) = "Greater"
    \/ (str_cmp(p[1], q[1]) = "Equal" /\ str_cmp(p[2], q[2]) = "Greater")
pair_less(p, q) ==
    \/ str_cmp(p[1], q[1]) = "Less"
    \/ (str_cmp(p[1], q[1]) = "Equal" /\ str_cmp(p[2], q[2]) = "Less")

\* nash: saddle points of the matrix, the ranking of maximin, and the
\* recommendation overridden by the first saddle point
nash(in) ==
    LET actions == ActionsOf(in)
        states == StatesOf(in)
        outcomes == OutcomesOf(in)
        v == validate(in)
    IN  IF v.kind = "Err" THEN v
        ELSE IF Len(states) = 0 THEN [kind |-> "Panic"]
        ELSE
        LET row_mins == [a \in Range(actions) |->
                            MinOf({outcomes[<<a, st>>] : st \in Range(states)})]
            col_maxs == [st \in Range(states) |->
                            MaxOf({outcomes[<<a, st>>] : a \in Range(actions)})]
            found == SelectSeq(Cells(actions, states), LAMBDA c :
                         /\ outcomes[c] = row_mins[c[1]]
                         /\ outcomes[c] = col_maxs[c[2]])
            equilibria == sort_by(found, {pr \in Range(found) \X Range(found) :
                                              pair_less(pr[1], pr[2])})
            base == maximin(in)
        IN  [kind |-> "Ok",
             ranking |-> base.ranking,
             recommended_action |-> IF Len(equilibria) > 0 THEN equilibria[1][1]
                                    ELSE base.recommended_action,
             nash_equilibria |-> equilibria]

\* the inner loop of pareto over the states: b is at least as good as a in
\* every state and strictly better in at least one
dominates_weakly(outcomes, states, b, a) ==
    \A st \in Range(states) : outcomes[<<b, st>>] >= outcomes[<<a, st>>]
dominates(outcomes, states, b, a) ==
    /\ \A st \in Range(states) : outcomes[<<b, st>>] >= outcomes[<<a, st>>]
    /\ \E st \in Range(states) : outcomes[<<b, st>>] > outcomes[<<a, st>>]

\* Vec<String>::sort: ascending byte-wise order
sort_strings(s) ==
    sort_by(s, {pr \in Range(s) \X Range(s) : str_cmp(pr[1], pr[2]) = "Less"})

\* the elements of a HashSet<String>, collected and sorted
sorted_set(S) ==
    [k \in 1..Cardinality(S) |->
        CHOOSE x \in S : Cardinality({y \in S : str_cmp(y, x) = "Less"}) = k - 1]

\* pareto: the dominated ids are collected in a set; the frontier is the
\* listed actions that are not dominated, sorted; the ranking is the frontier
\* followed by the sorted dominated ids
pareto(in) ==
    LET actions == ActionsOf(in)
        states == StatesOf(in)
        outcomes == OutcomesOf(in)
        v == validate(in)
    IN  IF v.kind = "Err" THEN v
        ELSE
        LET dominated == {a \in Range(actions) :
                             \E b \in Range(actions) :
                                 b # a /\ dominates(outcomes, states, b, a)}
            frontier == sort_strings(SelectSeq(actions, LAMBDA a : a \notin dominated))
            dominated_list == sorted_set(dominated)
        IN  IF Len(frontier) = 0 THEN [kind |-> "Err", error |-> "NoActions"]
            ELSE [kind |-> "Ok",
                  ranking |-> frontier \o dominated_list,
                  recommended_action |-> frontier[1],
                  pareto_frontier |-> frontier]

\* Iterator::max_by over accum.iter().enumerate(): the last index holding
\* the maximum
max_by(accum) ==
    MaxOf({i \in 1..Len(accum) : \A k \in 1..Len(accum) : accum[k] <= accum[i]})

\* Iterator::min_by over accum.iter().enumerate(): the first index holding
\* the minimum
min_by(accum) ==
    MinOf({j \in 1..Len(accum) : \A k \in 1..Len(accum) : accum[k] >= accum[j]})

\* src/engine.rs brown_robinson, the scan `if val > max_val`: the first index
\* holding the maximum
scan_max(accum) ==
    MinOf({i \in 1..Len(accum) : \A k \in 1..Len(accum) : accum[k] <= accum[i]})

\* src/engine.rs brown_robinson, the scan `if val < min_val`: the first index
\* holding the minimum
scan_min(accum) ==
    MinOf({j \in 1..Len(accum) : \A k \in 1..Len(accum) : accum[k] >= accum[j]})

\* the payoff matrix by list position
payoff_matrix(in) ==
    LET outcomes == OutcomesOf(in)
    IN  [i \in 1..Len(in.actions) |-> [j \in 1..Len(in.scenarios) |->
            outcomes[<<in.actions[i].id, in.scenarios[j].id>>]]]

\* one round of fictitious play once a* and s* are chosen; rounds keeps, for
\* each round, the accumulated payoffs it started from and its choices
play_round(st, matrix, best_action_idx, best_state_idx) ==
    [x_counts |-> [st.x_counts EXCEPT ![best_action_idx] = @ + 1],
     agent_accum |-> [i \in 1..Len(st.agent_accum) |->
                         st.agent_accum[i] + matrix[i][best_state_idx]],
     nature_accum |-> [j \in 1..Len(st.nature_accum) |->
                          st.nature_accum[j] + matrix[best_action_idx][j]],
     rounds |-> Append(st.rounds, [agent_accum |-> st.agent_accum,
                                   nature_accum |-> st.nature_accum,
                                   best_action_idx |-> best_action_idx,
                                   best_state_idx |-> best_state_idx])]

\* the state of fictitious play before the first round
play_start(num_actions, num_states) ==
    [x_counts |-> [i \in 1..num_actions |-> 0],
     agent_accum |-> [i \in 1..num_actions |-> 0],
     nature_accum |-> [j \in 1..num_states |-> 0],
     rounds |-> <<>>]

\* the loop `for _ in 0..iterations` of classical.rs brown_robinson
RECURSIVE play(_, _, _)
play(st, matrix, iterations) ==
    IF iterations = 0 THEN st
    ELSE play(play_round(st, matrix, max_by(st.agent_accum), min_by(st.nature_accum)),
              matrix, iterations - 1)

\* the loop `for _ in 0..iterations` of src/engine.rs brown_robinson
RECURSIVE scan_play(_, _, _)
scan_play(st, matrix, iterations) ==
    IF iterations = 0 THEN st
    ELSE scan_play(play_round(st, matrix, scan_max(st.agent_accum), scan_min(st.nature_accum)),
                   matrix, iterations - 1)

\* the scores map: the count of each listed action over the number of
\* iterations, inserted in list order (carried as the count)
br_scores(actions, x_counts) ==
    [a \in Range(actions) |-> x_counts[MaxOf({i \in 1..Len(actions) : actions[i] = a})]]

\* classical.rs brown_robinson
brown_robinson(in, iterations) ==
    LET actions == ActionsOf(in)
        states == StatesOf(in)
        v == validate(in)
    IN  IF v.kind = "Err" THEN v
        ELSE IF iterations = 0 THEN [kind |-> "Err", error |-> "InvalidInput"]
        ELSE IF Len(states) = 0 THEN [kind |-> "Panic"]
        ELSE
        LET end == play(play_start(Len(actions), Len(states)), payoff_matrix(in), iterations)
            scores == br_scores(actions, end.x_counts)
            ranked == rank_desc(actions, scores)
        IN  [kind |-> "Ok", ranking |-> ranked, recommended_action |-> ranked[1],
             brown_robinson_scores |-> scores, rounds |-> end.rounds]

\* src/engine.rs brown_robinson: no validation; a missing utility, an empty
\* action list and an empty state list end in a panic
root_brown_robinson(in, iterations) ==
    LET actions == ActionsOf(in)
        states == StatesOf(in)
    IN  IF iterations = 0 THEN [kind |-> "Err", error |-> "InvalidInput"]
        ELSE IF validate(in).kind = "Err" \/ Len(states) = 0 THEN [kind |-> "Panic"]
        ELSE
        LET end == scan_play(play_start(Len(actions), Len(states)), payoff_matrix(in), iterations)
            scores == br_scores(actions, end.x_counts)
            ranked == rank_desc(actions, scores)
        IN  [kind |-> "Ok", ranking |-> ranked, recommended_action |-> ranked[1],
             brown_robinson_scores |-> scores, rounds |-> end.rounds]

\* ---- inputs ----

ClassicalUtilities == {0, 1}

MaxIterations == 3      \* the iterations of a Brown-Robinson run

StateLists ==
    { <<>>,
      << [id |-> ScenarioIds[1], adversarial |-> FALSE] >>,
      << [id |-> ScenarioIds[1], adversarial |-> FALSE],
         [id |-> ScenarioIds[2], adversarial |-> FALSE] >>,
      << [id |-> ScenarioIds[2], adversarial |-> FALSE],
         [id |-> ScenarioIds[1], adversarial |-> FALSE] >> }

\* the outcomes that give every listed pair a utility, and the same with the
\* last pair left out; with no state listed, the outcomes name the state s1
ClassicalOutcomeLists(actions, states) ==
    LET sids == IF Len(states) = 0 THEN {ScenarioIds[1]} ELSE {sc.id : sc \in Range(states)}
        pairs == SelectSeq(AllPairs, LAMBDA pr :
                     /\ pr[1] \in {a.id : a \in Range(actions)}
                     /\ pr[2] \in sids)
        full == { [k \in 1..Len(pairs) |-> <<pairs[k][1], pairs[k][2], u[k]>>] :
                      u \in [1..Len(pairs) -> ClassicalUtilities] }
    IN  full \cup {SubSeq(ol, 1, Len(ol) - 1) : ol \in {f \in full : Len(f) > 0}}

ClassicalInit ==
    /\ \E al \in ActionLists, sl \in StateLists :
           \E ol \in ClassicalOutcomeLists(al, sl) :
               input = [actions |-> al, scenarios |-> sl, outcomes |-> ol]
    /\ output = NoResult

Nash ==
    /\ input # NoResult /\ output = NoResult
    /\ output' = [api |-> "nash", result |-> nash(input)]
    /\ UNCHANGED input
    /\ UNCHANGED <<codecVars, parserVars, serverVars>>

Pareto ==
    /\ input # NoResult /\ output = NoResult
    /\ output' = [api |-> "pareto", result |-> pareto(input)]
    /\ UNCHANGED input
    /\ UNCHANGED <<codecVars, parserVars, serverVars>>

BrownRobinson ==
    /\ input # NoResult /\ output = NoResult
    /\ \E iterations \in 0..MaxIterations :
           output' = [api |-> "brown_robinson", iterations |-> iterations,
                      result |-> brown_robinson(input, iterations)]
    /\ UNCHANGED input
    /\ UNCHANGED <<codecVars, parserVars, serverVars>>

RootBrownRobinson ==
    /\ input # NoResult /\ output = NoResult
    /\ \E iterations \in 0..MaxIterations :
           output' = [api |-> "root_brown_robinson", iterations |-> iterations,
                      result |-> root_brown_robinson(input, iterations)]
    /\ UNCHANGED input
    /\ UNCHANGED <<codecVars, parserVars, serverVars>>

-----------------------------------------------------------------------------
(* float_normalize on f64: decision-engine/src/determinism.rs.  An f64 is   *)
(* NaN, an infinity, or a finite value: a sign and a magnitude m * 10^e     *)
(* with m of at most nine digits and no trailing zero (m = 0, e = 0 for     *)
(* zero).  Products and quotients by FLOAT_PRECISION are exact in this      *)
(* form; a magnitude above f64::MAX overflows to infinity.                  *)

MaxNormalizeCalls == 2      \* successive applications of float_normalize

NaN == [class |-> "nan"]
Infinity(neg) == [class |-> "inf", neg |-> neg]
RECURSIVE Finite(_, _, _)
Finite(neg, m, e) ==
    IF m = 0 THEN [class |-> "finite", neg |-> neg, m |-> 0, e |-> 0]
    ELSE IF m % 10 = 0 THEN Finite(neg, m \div 10, e + 1)
    ELSE [class |-> "finite", neg |-> neg, m |-> m, e |-> e]

\* f64::MAX = 1.7976931348623157e308 and f64::MIN = -f64::MAX, to nine digits
F64_MAX == Finite(FALSE, 179769313, 300)
F64_MIN == Finite(TRUE, 179769313, 300)

\* the number of decimal digits of m > 0
RECURSIVE Digits(_)
Digits(m) == IF m < 10 THEN 1 ELSE 1 + Digits(m \div 10)

RECURSIVE Pow10(_)
Pow10(n) == IF n = 0 THEN 1 ELSE 10 * Pow10(n - 1)

\* m1 * 10^e1 > m2 * 10^e2 for m1, m2 > 0
MagnitudeAbove(m1, e1, m2, e2) ==
    LET s1 == e1 + Digits(m1)
        s2 == e2 + Digits(m2)
    IN  \/ s1 > s2
        \/ (s1 = s2 /\ m1 * Pow10(9 - Digits(m1)) > m2 * Pow10(9 - Digits(m2)))

\* the f64 nearest to sign * m * 10^e: infinity above f64::MAX
ToF64(neg, m, e) ==
    IF m # 0 /\ MagnitudeAbove(m, e, F64_MAX.m, F64_MAX.e) THEN Infinity(neg)
    ELSE Finite(neg, m, e)

\* FLOAT_PRECISION = 1e-9 = 10^-FLOAT_PRECISION_DIGITS
FLOAT_PRECISION_DIGITS == 9

\* value / FLOAT_PRECISION
div_precision(x) ==
    IF x.class = "finite" THEN ToF64(x.neg, x.m, x.e + FLOAT_PRECISION_DIGITS) ELSE x

\* value * FLOAT_PRECISION
mul_precision(x) ==
    IF x.class = "finite" THEN ToF64(x.neg, x.m, x.e - FLOAT_PRECISION_DIGITS) ELSE x

\* f64::round: to the nearest integer, halves away from zero; the sign of a
\* zero result is kept
round(x) ==
    IF x.class # "finite" \/ x.e >= 0 THEN x
    ELSE IF -x.e > 9 THEN Finite(x.neg, 0, 0)
    ELSE LET d == Pow10(-x.e)
         IN  Finite(x.neg, (x.m \div d) + (IF 2 * (x.m % d) >= d THEN 1 ELSE 0), 0)

float_normalize(value) ==
    IF value.class = "nan" THEN Finite(FALSE, 0, 0)
    ELSE IF value.class = "inf" THEN (IF ~value.neg THEN F64_MAX ELSE F64_MIN)
    ELSE mul_precision(round(div_precision(value)))

\* the arguments: NaN, the infinities, the zeros, f64::MAX and f64::MIN, the
\* smallest positive normal value, and magnitudes around 1e-9, 1 and the
\* overflow of value / FLOAT_PRECISION
F64Values ==
    {NaN} \cup {Infinity(neg) : neg \in BOOLEAN}
          \cup {Finite(neg, 0, 0) : neg \in BOOLEAN}
          \cup {F64_MAX, F64_MIN}
          \cup {Finite(neg, 222507385, -316) : neg \in BOOLEAN}
          \cup {Finite(neg, m, e) : neg \in BOOLEAN, m \in {1, 5, 15, 123456789},
                                    e \in {-12, -10, -9, -1, 0, 3, 290, 299, 300}}

FloatInit ==
    /\ input \in F64Values
    /\ output = NoResult

\* float_normalize applied to the input, then to its own result
FloatNormalize ==
    /\ input # NoResult
    /\ LET arg == IF output = NoResult THEN input ELSE output.result
           calls == IF output = NoResult THEN 0 ELSE output.calls
       IN  /\ calls < MaxNormalizeCalls
           /\ output' = [api |-> "float_normalize", arg |-> arg,
                         result |-> float_normalize(arg), calls |-> calls + 1]
    /\ UNCHANGED input
    /\ UNCHANGED <<codecVars, parserVars, serverVars>>

-----------------------------------------------------------------------------
(* Version compatibility: engine-core/src/invariants/mod.rs.  A version     *)
(* string is its bytes; a u32 is carried as its two 16-bit halves.          *)

\* str::split('.'): the pieces between the dots, empty pieces included
RECURSIVE split(_)
split(s) ==
    LET dots == {i \in 1..Len(s) : s[i] = 46}
    IN  IF dots = {} THEN <<s>>
        ELSE LET d == MinOf(dots)
             IN  <<SubSeq(s, 1, d - 1)>> \o split(SubSeq(s, d + 1, Len(s)))

\* the checked_mul(10) and checked_add(digit) of u32::from_str on the value
\* <<high half, low half>>
RECURSIVE parse_digits(_, _)
parse_digits(digits, acc) ==
    IF acc.kind = "Err" \/ Len(digits) = 0 THEN acc
    ELSE IF digits[1] < 48 \/ digits[1] > 57
         THEN [kind |-> "Err", error |-> "InvalidDigit"]
    ELSE LET t == acc.value[2] * 10 + (digits[1] - 48)
             high == acc.value[1] * 10 + (t \div 65536)
         IN  parse_digits(Tail(digits),
                 IF high > 65535 THEN [kind |-> "Err", error |-> "PosOverflow"]
                 ELSE [kind |-> "Ok", value |-> <<high, t % 65536>>])

\* str::parse::<u32>: an optional leading '+', then at least one decimal
\* digit and nothing else
parse_u32(s) ==
    IF Len(s) = 0 THEN [kind |-> "Err", error |-> "Empty"]
    ELSE IF s = <<43>> THEN [kind |-> "Err", error |-> "InvalidDigit"]
    ELSE parse_digits(IF s[1] = 43 THEN Tail(s) ELSE s, [kind |-> "Ok", value |-> <<0, 0>>])

parse_semver(version) ==
    LET parts == split(version)
    IN  IF Len(parts) # 3 THEN [kind |-> "Err", error |-> "BadFormat"]
        ELSE LET major == parse_u32(parts[1])
                 minor == parse_u32(parts[2])
                 patch == parse_u32(parts[3])
             IN  IF major.kind = "Err" \/ minor.kind = "Err" \/ patch.kind = "Err"
                 THEN [kind |-> "Err", error |-> "InvalidSegment"]
                 ELSE [kind |-> "Ok", major |-> major.value, minor |-> minor.value,
                       patch |-> patch.value]

\* >= on u32
u32_ge(a, b) == a[1] > b[1] \/ (a[1] = b[1] /\ a[2] >= b[2])

minor_version_forward_compatible(current, candidate) ==
    LET c == parse_semver(current)
        d == parse_semver(candidate)
    IN  IF c.kind = "Err" \/ d.kind = "Err" THEN FALSE
        ELSE c.major = d.major /\ u32_ge(d.minor, c.minor)

patch_upgrade_replay_compatible(source, target) ==
    LET c == parse_semver(source)
        d == parse_semver(target)
    IN  IF c.kind = "Err" \/ d.kind = "Err" THEN FALSE
        ELSE c.major = d.major /\ c.minor = d.minor

\* ---- inputs ----

\* "1", "+1", "2"
MajorTexts == { <<49>>, <<43, 49>>, <<50>> }

\* "", "0", "1", "01", "+1", "-1", "1x", "4294967295", "4294967296"
MinorTexts ==
    { <<>>, <<48>>, <<49>>, <<48, 49>>, <<43, 49>>, <<45, 49>>, <<49, 120>>,
      <<52, 50, 57, 52, 57, 54, 55, 50, 57, 53>>,
      <<52, 50, 57, 52, 57, 54, 55, 50, 57, 54>> }

\* "0", "", "x"
PatchTexts == { <<48>>, <<>>, <<120>> }

\* major.minor.patch over the texts, and strings of two and of four segments
VersionTexts ==
    {a \o <<46>> \o b \o <<46>> \o c : a \in MajorTexts, b \in MinorTexts, c \in PatchTexts}
        \cup {a \o <<46>> \o b : a \in MajorTexts, b \in {<<48>>, <<49>>}}
        \cup {a \o <<46, 49, 46, 48, 46>> \o c : a \in MajorTexts, c \in {<<>>, <<48>>}}

SemverInit ==
    /\ \E a \in VersionTexts, b \in VersionTexts : input = <<a, b>>
    /\ output = NoResult

MinorVersionForwardCompatible ==
    /\ input # NoResult /\ output = NoResult
    /\ output' = [api |-> "minor_version_forward_compatible",
                  result |-> minor_version_forward_compatible(input[1], input[2])]
    /\ UNCHANGED input
    /\ UNCHANGED <<codecVars, parserVars, serverVars>>

PatchUpgradeReplayCompatible ==
    /\ input # NoResult /\ output = NoResult
    /\ output' = [api |-> "patch_upgrade_replay_compatible",
                  result |-> patch_upgrade_replay_compatible(input[1], input[2])]
    /\ UNCHANGED input
    /\ UNCHANGED <<codecVars, parserVars, serverVars>>

-----------------------------------------------------------------------------
(* Fixed-point constructors: requiem/src/fixed/mod.rs.  The f64 argument is *)
(* in the form of the float_normalize section.  An i64 is its sign and the  *)
(* four 16-bit limbs of its magnitude, most significant first; an i32 and   *)
(* an i16 are integers.                                                     *)

None == [kind |-> "None"]
Some(v) == [kind |-> "Some", value |-> v]

I64(neg, mag) == [neg |-> neg /\ mag # <<0, 0, 0, 0>>, mag |-> mag]
I64_MAX == I64(FALSE, <<32767, 65535, 65535, 65535>>)
I64_MIN == I64(TRUE, <<32768, 0, 0, 0>>)
I32_MAX == 2147483647
I32_MIN == -2147483647 - 1
I16_MAX == 32767
I16_MIN == -32768

\* a magnitude of 2^64 or more
TooLarge == <<>>

\* the limbs of 0 <= n < 2^31
limbs(n) == <<0, 0, n \div 65536, n % 65536>>

\* 10 * mag
mul10(mag) ==
    IF mag = TooLarge THEN TooLarge
    ELSE LET t0 == mag[4] * 10
             t1 == mag[3] * 10 + (t0 \div 65536)
             t2 == mag[2] * 10 + (t1 \div 65536)
             t3 == mag[1] * 10 + (t2 \div 65536)
         IN  IF t3 > 65535 THEN TooLarge
             ELSE <<t3, t2 % 65536, t1 % 65536, t0 % 65536>>

\* mag * 10^e, e >= 0
RECURSIVE scale10(_, _)
scale10(mag, e) ==
    IF e = 0 \/ mag = TooLarge THEN mag ELSE scale10(mul10(mag), e - 1)

\* the integer part of |x| for a finite x
whole_part(x) ==
    IF x.e >= 0 THEN scale10(limbs(x.m), x.e)
    ELSE IF -x.e > 9 THEN limbs(0)
    ELSE limbs(x.m \div Pow10(-x.e))

\* `x as i64`: truncation toward zero, saturating, NaN to 0
as_i64(x) ==
    IF x.class = "nan" THEN I64(FALSE, limbs(0))
    ELSE IF x.class = "inf" THEN (IF x.neg THEN I64_MIN ELSE I64_MAX)
    ELSE LET whole == whole_part(x)
         IN  IF whole = TooLarge \/ whole[1] > 32767
             THEN (IF x.neg THEN I64_MIN ELSE I64_MAX)
             ELSE I64(x.neg, whole)

\* `x as i32`: truncation toward zero, saturating, NaN to 0
as_i32(x) ==
    LET w == as_i64(x)
    IN  IF w.mag[1] # 0 \/ w.mag[2] # 0 \/ w.mag[3] > 32767
        THEN (IF w.neg THEN I32_MIN ELSE I32_MAX)
        ELSE (IF w.neg THEN -1 ELSE 1) * (w.mag[3] * 65536 + w.mag[4])

\* x * 10^k on f64
mul_pow10(x, k) ==
    IF x.class = "finite" THEN ToF64(x.neg, x.m, x.e + k) ELSE x

\* x < 0.0 and x > 1.0 on f64: false for NaN, -0.0 is not below 0.0
lt_zero(x) ==
    \/ x.class = "inf" /\ x.neg
    \/ x.class = "finite" /\ x.neg /\ x.m # 0
gt_one(x) ==
    \/ x.class = "inf" /\ ~x.neg
    \/ x.class = "finite" /\ ~x.neg /\ x.m # 0 /\ MagnitudeAbove(x.m, x.e, 1, 0)

\* the first n binary digits of num / den (0 <= num < den <= 10^9) after
\* acc, and the remainder
RECURSIVE frac_bits(_, _, _, _)
frac_bits(num, den, n, acc) ==
    IF n = 0 THEN <<acc, num>>
    ELSE LET d == 2 * num
         IN  IF d >= den THEN frac_bits(d - den, den, n - 1, 2 * acc + 1)
             ELSE frac_bits(d, den, n - 1, 2 * acc)

\* the magnitude of value * SCALE_F64 (2^32), truncated to an integer
scaled_magnitude(value) ==
    LET whole == whole_part(value)
        den == IF value.e < 0 /\ -value.e <= 9 THEN Pow10(-value.e) ELSE 1
        high == frac_bits(IF den = 1 THEN 0 ELSE value.m % den, den, 16, 0)
        low == frac_bits(high[2], den, 16, 0)
    IN  IF whole = TooLarge \/ whole[1] # 0 \/ whole[2] # 0 THEN TooLarge
        ELSE <<whole[3], whole[4], high[1], low[1]>>

\* FixedQ32_32::from_f64.  A nine-digit value never scales to 2^63 exactly,
\* so `scaled > i64::MAX as f64 || scaled < i64::MIN as f64` is a truncated
\* magnitude of 2^63 or more.
from_f64(value) ==
    IF value.class = "nan" \/ value.class = "inf" THEN None
    ELSE LET scaled == scaled_magnitude(value)
         IN  IF scaled = TooLarge \/ scaled[1] > 32767 THEN None
             ELSE Some(I64(value.neg, scaled))

\* FixedBps::from_percent
from_percent(percent) ==
    LET bps == as_i32(round(mul_pow10(percent, 2)))
    IN  IF bps > I16_MAX \/ bps < I16_MIN THEN None
        ELSE Some(bps)

\* FixedPpm::from_ratio
from_ratio(ratio) ==
    IF lt_zero(ratio) \/ gt_one(ratio) THEN None
    ELSE LET ppm == as_i64(round(mul_pow10(ratio, 6)))
         IN  IF ~ppm.neg /\ (ppm.mag[1] # 0 \/ ppm.mag[2] # 0 \/ ppm.mag[3] > 32767)
             THEN None
             ELSE Some((IF ppm.neg THEN -1 ELSE 1) * (ppm.mag[3] * 65536 + ppm.mag[4]))

\* FixedThroughput::checked
checked(self) == IF self.neg THEN None ELSE Some(self)

\* FixedThroughput::from_ops_per_sec
from_ops_per_sec(ops) ==
    IF lt_zero(ops) \/ ops.class = "nan" \/ ops.class = "inf" THEN None
    ELSE checked(as_i64(round(mul_pow10(ops, 6))))

\* ---- inputs ----

\* NaN, the infinities, the zeros, and magnitudes around the ends of the
\* four ranges: 0.01 .. 0.5, 1, 327.67 and 327.68, 2e9 and 3e9, 9.3e12, 1e300
FixedArgs ==
    {NaN} \cup {Infinity(neg) : neg \in BOOLEAN}
          \cup {Finite(neg, 0, 0) : neg \in BOOLEAN}
          \cup {Finite(neg, m, e) : neg \in BOOLEAN,
                                    m \in {1, 2, 3, 5, 15, 93, 32767, 32768},
                                    e \in {-2, -1, 0, 9, 11, 300}}

FixedInit ==
    /\ input \in FixedArgs
    /\ output = NoResult

FromF64 ==
    /\ input # NoResult /\ output = NoResult
    /\ output' = [api |-> "FixedQ32_32::from_f64", result |-> from_f64(input)]
    /\ UNCHANGED input
    /\ UNCHANGED <<codecVars, parserVars, serverVars>>

FromPercent ==
    /\ input # NoResult /\ output = NoResult
    /\ output' = [api |-> "FixedBps::from_percent", result |-> from_percent(input)]
    /\ UNCHANGED input
    /\ UNCHANGED <<codecVars, parserVars, serverVars>>

FromRatio ==
    /\ input # NoResult /\ output = NoResult
    /\ output' = [api |-> "FixedPpm::from_ratio", result |-> from_ratio(input)]
    /\ UNCHANGED input
    /\ UNCHANGED <<codecVars, parserVars, serverVars>>

FromOpsPerSec ==
    /\ input # NoResult /\ output = NoResult
    /\ output' = [api |-> "FixedThroughput::from_ops_per_sec",
                  result |-> from_ops_per_sec(input)]
    /\ UNCHANGED input
    /\ UNCHANGED <<codecVars, parserVars, serverVars>>

-----------------------------------------------------------------------------
(* Run handle: engine/src/lib.rs and engine/src/state/mod.rs.  The input    *)
(* holds what start_run_with_controls is given and a RunHandle never        *)
(* changes (workflow, policy, controls); the output holds the rest of the   *)
(* RunHandle, the last call with its result and the events it pushed, the   *)
(* number of calls made and the number of events push_event has dropped.    *)
(* Amounts of money are whole numbers of USD.                               *)

MAX_PENDING_EVENTS == 10000

MaxRunCalls == 4        \* calls made on one RunHandle
Backlog == 9997         \* next_action calls of a caller that has not drained

Ok(v) == [kind |-> "Ok", value |-> v]
Err(e) == [kind |-> "Err", error |-> e]

Created == [status |-> "Created"]
Running == [status |-> "Running"]
Completed == [status |-> "Completed"]
Failed(reason) == [status |-> "Failed", reason |-> reason]
\* the targets RunHandle hands to transition besides the above
Paused(reason) == [status |-> "Paused", reason |-> reason]
Cancelled(reason) == [status |-> "Cancelled", reason |-> reason]

Invalid(from, to) == [type |-> "Invalid", from |-> from, to |-> to]

\* RunStatus::transition
RunStatus_transition(self, target) ==
    IF self.status = "Created" /\ target.status = "Running"
    THEN Ok([type |-> "RunStarted"])
    ELSE IF self.status = "Running" /\ target.status = "Completed"
    THEN Ok([type |-> "RunCompleted"])
    ELSE IF self.status = "Running" /\ target.status = "Failed"
    THEN Ok([type |-> "RunFailed", reason |-> target.reason])
    ELSE Err(Invalid(self, target))

\* RunHandle::push_event; `pushed` and `dropped` are the observation
push_event(self, event) ==
    LET full == Len(self.pending_events) >= MAX_PENDING_EVENTS
    IN  [self EXCEPT !.pending_events =
                         Append(IF full THEN Tail(@) ELSE @, event),
                     !.pushed = Append(@, event),
                     !.dropped = IF full THEN @ + 1 ELSE @]

\* RunHandle::transition: the handle afterwards and the result
RunHandle_transition(self, target) ==
    LET event == RunStatus_transition(self.status, target)
    IN  IF event.kind = "Err" THEN [self |-> self, result |-> event]
        ELSE [self |-> push_event([self EXCEPT !.status = target], event.value),
              result |-> Ok("()")]

\* Engine::start_run_with_controls
start_run_with_controls ==
    LET handle == [status |-> Created, current_step |-> 0, pending_events |-> <<>>,
                   budget |-> [spent_usd |-> 0, reserved_usd |-> 0, step_costs |-> <<>>],
                   steps_executed |-> 0, pushed |-> <<>>, dropped |-> 0]
        t == RunHandle_transition(handle, Running)
    IN  IF t.result.kind = "Err" THEN t ELSE [self |-> t.self, result |-> Ok("handle")]

\* RunHandle::pause, resume, cancel
pause(self, reason) == RunHandle_transition(self, Paused(reason))
resume(self) == RunHandle_transition(self, Running)
cancel(self, reason) == RunHandle_transition(self, Cancelled(reason))

\* BudgetTracker::commit
commit(budget, step_id, actual_cost) ==
    IF actual_cost < 0 THEN budget
    ELSE [spent_usd |-> budget.spent_usd + actual_cost,
          reserved_usd |-> IF budget.reserved_usd - actual_cost < 0 THEN 0
                           ELSE budget.reserved_usd - actual_cost,
          step_costs |-> Append(budget.step_costs,
                                [step_id |-> step_id, cost_usd |-> actual_cost])]

\* RunHandle::record_cost
record_cost(self, controls, step_id, cost_usd) ==
    LET charged == [self EXCEPT !.budget = commit(@, step_id, cost_usd)]
        limit == controls.budget_limit_usd
    IN  IF limit # None /\ charged.budget.spent_usd >= limit.value
        THEN [self |-> RunHandle_transition(charged, Paused("budget exceeded")).self,
              result |-> Err([type |-> "BudgetExceeded",
                              spent |-> charged.budget.spent_usd, limit |-> limit.value])]
        ELSE [self |-> charged, result |-> Ok("()")]

\* Policy::evaluate through RunHandle::first_denied_reason, for the one
\* capability ToolUse a tool call requires
first_denied_reason(policy, tool) ==
    IF tool \in policy THEN Some("capability denied by policy") ELSE None

\* RunHandle::next_action
next_action(self, workflow, policy, controls) ==
    IF self.status.status = "Failed"
    THEN [self |-> self, result |-> [type |-> "Error", message |-> "run already failed"]]
    ELSE IF self.status.status = "Completed"
    THEN [self |-> self, result |-> [type |-> "Done"]]
    ELSE IF self.status.status = "Paused"
    THEN [self |-> self, result |-> [type |-> "Paused", reason |-> self.status.reason]]
    ELSE IF self.status.status = "Cancelled"
    THEN [self |-> self, result |-> [type |-> "Cancelled", reason |-> self.status.reason]]
    ELSE IF controls.max_steps # None /\ self.steps_executed >= controls.max_steps.value
    THEN [self |-> RunHandle_transition(self, Cancelled("max steps reached")).self,
          result |-> [type |-> "Cancelled", reason |-> "max steps reached"]]
    ELSE IF self.current_step >= Len(workflow)
    THEN LET t == RunHandle_transition(self, Completed)
         IN  IF t.result.kind = "Err"
             THEN [self |-> t.self,
                   result |-> [type |-> "Error", message |-> "unable to complete run"]]
             ELSE [self |-> t.self, result |-> [type |-> "Done"]]
    ELSE LET step == workflow[self.current_step + 1]
         IN  IF step.kind = "ToolCall"
             THEN IF first_denied_reason(policy, step.tool) # None
                  THEN LET denied == push_event(self, [type |-> "PolicyDenied",
                                                       step_id |-> step.id])
                       IN  [self |-> RunHandle_transition(denied,
                                         Failed("policy denied tool call")).self,
                            result |-> [type |-> "Error",
                                        message |-> "policy denied tool call"]]
                  ELSE [self |-> push_event(self, [type |-> "ToolCallRequested",
                                                   step_id |-> step.id]),
                        result |-> [type |-> "ToolCall", step_id |-> step.id]]
             ELSE [self |-> [push_event(self, [type |-> "ArtifactEmitted",
                                               step_id |-> step.id])
                                EXCEPT !.current_step = @ + 1,
                                       !.steps_executed = @ + 1],
                   result |-> [type |-> "EmitArtifact", step_id |-> step.id]]

\* RunHandle::apply_tool_result
apply_tool_result(self, tool_result) ==
    IF self.status.status # "Running"
    THEN [self |-> self, result |-> Err(Invalid(self.status, Running))]
    ELSE [self |-> [push_event(self, [type |-> "ToolCallCompleted",
                                      step_id |-> tool_result.step_id])
                       EXCEPT !.current_step = @ + 1, !.steps_executed = @ + 1],
          result |-> Ok("()")]

\* RunHandle::drain_events
drain_events(self) ==
    [self |-> [self EXCEPT !.pending_events = <<>>], result |-> self.pending_events]

\* ---- inputs ----

StepIds == {"s1", "s2"}
Tools == {"echo"}

\* workflows of up to two steps, each a tool call or an artifact
Workflows ==
    { <<>>,
      <<[id |-> "s1", kind |-> "ToolCall", tool |-> "echo"]>>,
      <<[id |-> "s1", kind |-> "EmitArtifact", tool |-> "None"]>>,
      <<[id |-> "s1", kind |-> "ToolCall", tool |-> "echo"],
        [id |-> "s2", kind |-> "EmitArtifact", tool |-> "None"]>>,
      <<[id |-> "s1", kind |-> "EmitArtifact", tool |-> "None"],
        [id |-> "s2", kind |-> "ToolCall", tool |-> "echo"]>> }

\* the tools a policy denies
Policies == SUBSET Tools

Controls ==
    [max_steps : {None, Some(1)}, budget_limit_usd : {None, Some(2)}]

\* the handle after start_run_with_controls and n calls of next_action that
\* each requested the tool call of step s1, no event drained
undrained(n) ==
    LET started == start_run_with_controls.self
        events == started.pending_events
                      \o [i \in 1..n |-> [type |-> "ToolCallRequested", step_id |-> "s1"]]
    IN  [started EXCEPT !.pending_events = events,
                        !.pushed = IF n = 0 THEN @ ELSE <<events[Len(events)]>>]

\* a run about to be started, or a run without budget limit on a workflow
\* that begins with an allowed tool call, left undrained
RunInit ==
    \E workflow \in Workflows, policy \in Policies, controls \in Controls :
        /\ input = [workflow |-> workflow, policy |-> policy, controls |-> controls]
        /\ \/ output = NoResult
           \/ /\ Len(workflow) > 0 /\ workflow[1].kind = "ToolCall"
              /\ workflow[1].tool \notin policy
              /\ controls.budget_limit_usd = None
              /\ output = [run |-> undrained(Backlog),
                           call |-> [op |-> "next_action", before |-> Running,
                                     result |-> [type |-> "ToolCall", step_id |-> "s1"]],
                           calls |-> 0]

\* a call can be made on the RunHandle
CanCall == output # NoResult /\ output.calls < MaxRunCalls

\* the RunHandle a call leaves and what it returned
Returned(op, r) ==
    [run |-> [r.self EXCEPT !.pushed = SubSeq(@, Len(output.run.pushed) + 1, Len(@))],
     call |-> [op |-> op, before |-> output.run.status, result |-> r.result],
     calls |-> output.calls + 1]

StartRun ==
    /\ input # NoResult /\ output = NoResult
    /\ output' = [run |-> start_run_with_controls.self,
                  call |-> [op |-> "start_run_with_controls", before |-> Created,
                            result |-> start_run_with_controls.result],
                  calls |-> 0]
    /\ UNCHANGED input
    /\ UNCHANGED <<codecVars, parserVars, serverVars>>

Pause ==
    /\ CanCall
    /\ output' = Returned("pause", pause(output.run, "test"))
    /\ UNCHANGED input
    /\ UNCHANGED <<codecVars, parserVars, serverVars>>

Resume ==
    /\ CanCall
    /\ output' = Returned("resume", resume(output.run))
    /\ UNCHANGED input
    /\ UNCHANGED <<codecVars, parserVars, serverVars>>

Cancel ==
    /\ CanCall
    /\ output' = Returned("cancel", cancel(output.run, "test"))
    /\ UNCHANGED input
    /\ UNCHANGED <<codecVars, parserVars, serverVars>>

RecordCost ==
    /\ CanCall
    /\ \E cost_usd \in {-1, 1} :
           output' = Returned("record_cost",
                              record_cost(output.run, input.controls, "s1", cost_usd))
    /\ UNCHANGED input
    /\ UNCHANGED <<codecVars, parserVars, serverVars>>

NextAction ==
    /\ CanCall
    /\ output' = Returned("next_action",
                          next_action(output.run, input.workflow, input.policy,
                                      input.controls))
    /\ UNCHANGED input
    /\ UNCHANGED <<codecVars, parserVars, serverVars>>

ApplyToolResult ==
    /\ CanCall
    /\ \E step_id \in StepIds :
           output' = Returned("apply_tool_result",
                              apply_tool_result(output.run, [step_id |-> step_id]))
    /\ UNCHANGED input
    /\ UNCHANGED <<codecVars, parserVars, serverVars>>

DrainEvents ==
    /\ CanCall
    /\ output' = Returned("drain_events", drain_events(output.run))
    /\ UNCHANGED input
    /\ UNCHANGED <<codecVars, parserVars, serverVars>>

-----------------------------------------------------------------------------
(* Decoding of received bytes: Frame::decode on what a buffer holds after   *)
(* some reads, a stream cut at any byte.                                    *)

\* a header with valid magic and type whose payload length is above
\* MAX_PAYLOAD_BYTES, and four more bytes
TooLargeFrame ==
    U32le(MAGIC) \o U16le(1) \o U16le(0) \o U32le(16) \o U32le(0) \o U32le(0)
                 \o <<1, 0, 0, 4>> \o <<1, 2, 3, 4>>

\* the streams: a frame and the start of the next, two frames, a frame with
\* a wrong CRC before a frame, a frame of unknown type, an oversized frame,
\* bytes without magic
DecodeStreams ==
    { encode(NewFrame("Hello", <<1, 0, 1, 0>>, U32le(1))) \o U32le(MAGIC),
      encode(NewFrame("Heartbeat", <<>>, U32le(0)))
          \o encode(NewFrame("ExecRequest", <<7>>, U32le(2))),
      BadCrcFrame \o encode(NewFrame("Heartbeat", <<>>, U32le(3))),
      UnknownTypeFrame \o <<103>>,
      TooLargeFrame,
      [i \in 1..30 |-> 255] }

\* the buffer holds the first n bytes of a stream
DecodeInit ==
    /\ \E stream \in DecodeStreams : \E n \in 0..Len(stream) : dst = SubSeq(stream, 1, n)
    /\ frame = NoResult
    /\ flipped = -1
    /\ decoded = NoResult

-----------------------------------------------------------------------------
(* Concurrent handshakes: two connections served by two tasks over one      *)
(* ServerState; each peer sends Hello frames and may close.                 *)

MaxHandshakes == 2      \* Hello frames a peer sends on one connection

\* the peer sends its next Hello
SendHello(c) ==
    /\ peer[c] = "open" /\ Len(sent[c]) < MaxHandshakes
    /\ LET f == NewFrame("Hello", <<1, 0, 1, 0>>, U32le(Len(sent[c]) + 1))
       IN  /\ wire' = [wire EXCEPT ![c] = @ \o encode(f)]
           /\ sent' = [sent EXCEPT ![c] = Append(@, f)]
    /\ UNCHANGED <<peer, buf, connection_state, session_id, pc, pending, out,
                   connections, next_session_id, handled, assigned>>
    /\ UNCHANGED <<codecVars, parserVars, rankVars>>

-----------------------------------------------------------------------------
(* Resynchronisation over split reads: the peer sends bytes that are not a  *)
(* frame followed by one encoded frame, and read_buf hands them to          *)
(* handle_connection in pieces of any size.                                 *)

\* lengths of the run of bytes sent ahead of the frame; the bytes are 103,
\* which is no byte of the magic
GarbageLens == {0, 5, 22, 24}

\* the peer sends garbage || encode(F) on a fresh connection
SendStream(c) ==
    /\ peer[c] = "open" /\ sent[c] = <<>>
    /\ \E n \in GarbageLens :
       \E f \in { NewFrame("Hello", <<1, 0, 1, 0>>, U32le(2)),
                  NewFrame("Heartbeat", <<>>, U32le(2)) } :
           /\ wire' = [wire EXCEPT ![c] = [i \in 1..n |-> 103] \o encode(f)]
           /\ sent' = [sent EXCEPT ![c] = <<Noise, f>>]
    /\ UNCHANGED <<peer, buf, connection_state, session_id, pc, pending, out,
                   connections, next_session_id, handled, assigned>>
    /\ UNCHANGED <<codecVars, parserVars, rankVars>>

\* read_buf returns Ok(n) for some n > 0 up to what has arrived
ReadSome(c) ==
    /\ pc[c] = "read" /\ peer[c] # "reset" /\ wire[c] # <<>>
    /\ \E n \in 1..Len(wire[c]) :
           /\ buf' = [buf EXCEPT ![c] = @ \o SubSeq(wire[c], 1, n)]
           /\ wire' = [wire EXCEPT ![c] = advance(@, n)]
    /\ pc' = [pc EXCEPT ![c] = "parse"]
    /\ UNCHANGED <<peer, connection_state, session_id, pending, out,
                   connections, next_session_id, sent, handled, assigned>>
    /\ UNCHANGED <<codecVars, parserVars, rankVars>>

-----------------------------------------------------------------------------
(* Workflow machine: engine/src/state_machine.rs.  A WorkflowMachine walks  *)
(* a validated Workflow under an ExecutionPolicy; every call returns an     *)
(* EngineEvent or a MachineError.                                           *)

MaxMachineCalls == 5    \* calls made on one machine

\* MachineState
MachineIdle == [state |-> "Idle"]
MachineRunning(current, transitions) ==
    [state |-> "Running", current |-> current, transitions |-> transitions]
MachinePaused(current, transitions) ==
    [state |-> "Paused", current |-> current, transitions |-> transitions]
MachineCancelled == [state |-> "Cancelled"]
MachineCompleted == [state |-> "Completed"]

\* EngineEvent::new
EngineEvent(sequence, node_id, kind) ==
    [sequence |-> sequence, node_id |-> node_id, kind |-> kind]

\* ExecutionPolicy::evaluate_transition
evaluate_transition(policy, transitions) ==
    IF transitions >= policy.max_transitions
    THEN Err("TransitionLimitReached")
    ELSE Ok("Allow")

\* ExecutionPolicy::evaluate_decision
policy_evaluate_decision(policy) ==
    IF policy.allow_decisions THEN Ok("Allow") ELSE Err("DecisionNodeDisallowed")

\* WorkflowMachine::next_event: the sequence number is taken even when the
\* event is refused
next_event(self, kind) ==
    LET seq     == self.sequence + 1
        node_id == CASE self.state.state = "Idle" -> self.workflow.start
                     [] self.state.state \in {"Running", "Paused"} -> self.state.current
                     [] self.state.state = "Completed" -> "completed"
                     [] self.state.state = "Cancelled" -> "cancelled"
        after   == [self EXCEPT !.sequence = seq]
    IN  IF node_id = ""
        THEN [self |-> after, result |-> Err("InvalidWorkflow")]
        ELSE [self |-> after, result |-> Ok(EngineEvent(seq, node_id, kind))]

\* WorkflowMachine::new: Workflow::validate passed
WorkflowMachine_new(workflow, policy) ==
    [workflow |-> workflow, policy |-> policy, state |-> MachineIdle, sequence |-> 0]

\* WorkflowMachine::start
WorkflowMachine_start(self) ==
    next_event([self EXCEPT !.state = MachineRunning(self.workflow.start, 0)], "Entered")

\* WorkflowMachine::pause
WorkflowMachine_pause(self) ==
    IF self.state.state = "Running"
    THEN next_event([self EXCEPT !.state = MachinePaused(self.state.current,
                                                         self.state.transitions)],
                    "Paused")
    ELSE [self |-> self, result |-> Err("InvalidStateTransition")]

\* WorkflowMachine::resume
WorkflowMachine_resume(self) ==
    IF self.state.state = "Paused"
    THEN next_event([self EXCEPT !.state = MachineRunning(self.state.current,
                                                          self.state.transitions)],
                    "Resumed")
    ELSE [self |-> self, result |-> Err("InvalidStateTransition")]

\* WorkflowMachine::cancel
WorkflowMachine_cancel(self) ==
    IF self.state.state \in {"Running", "Paused"}
    THEN next_event([self EXCEPT !.state = MachineCancelled], "Cancelled")
    ELSE [self |-> self, result |-> Err("InvalidStateTransition")]

\* WorkflowMachine::step
WorkflowMachine_step(self) ==
    CASE self.state.state = "Idle" -> WorkflowMachine_start(self)
      [] self.state.state = "Completed" -> next_event(self, "Completed")
      [] self.state.state \in {"Paused", "Cancelled"} ->
            [self |-> self, result |-> Err("InvalidStateTransition")]
      [] OTHER ->
            LET current     == self.state.current
                transitions == self.state.transitions
                allowed     == evaluate_transition(self.policy, transitions)
            IN  IF allowed.kind = "Err"
                THEN [self |-> self, result |-> Err(allowed.error)]
                ELSE IF current \notin DOMAIN self.workflow.nodes
                THEN [self |-> self, result |-> Err("NodeMissing")]
                ELSE
                LET node == self.workflow.nodes[current]
                IN  IF node.kind = "Decision"
                       /\ policy_evaluate_decision(self.policy).kind = "Err"
                    THEN [self |-> self,
                          result |-> Err(policy_evaluate_decision(self.policy).error)]
                    ELSE IF node.kind = "Terminal"
                    THEN next_event([self EXCEPT !.state = MachineCompleted], "Completed")
                    ELSE IF node.next = <<>>
                    THEN [self |-> self, result |-> Err("NoSuccessor")]
                    ELSE next_event([self EXCEPT !.state =
                                        MachineRunning(node.next[1], transitions + 1)],
                                    "Entered")

\* sample_workflow of the tests, a single terminal node, a task that loops
\* back to itself, and a task without successor
MachineWorkflows ==
    { [start |-> "start",
       nodes |-> [n \in {"start", "decide", "done"} |->
                    CASE n = "start"  -> [kind |-> "Task", next |-> <<"decide">>]
                      [] n = "decide" -> [kind |-> "Decision", next |-> <<"done">>]
                      [] n = "done"   -> [kind |-> "Terminal", next |-> <<>>]]],
      [start |-> "start",
       nodes |-> [n \in {"start"} |-> [kind |-> "Terminal", next |-> <<>>]]],
      [start |-> "start",
       nodes |-> [n \in {"start"} |-> [kind |-> "Task", next |-> <<"start">>]]],
      [start |-> "start",
       nodes |-> [n \in {"start"} |-> [kind |-> "Task", next |-> <<>>]]] }

\* the policies of the tests and the default
MachinePolicies ==
    { [max_transitions |-> 1, allow_decisions |-> FALSE],
      [max_transitions |-> 1, allow_decisions |-> TRUE],
      [max_transitions |-> 128, allow_decisions |-> TRUE] }

\* a machine as WorkflowMachine::new returns it
MachineInit ==
    /\ input = NoResult
    /\ \E workflow \in MachineWorkflows : \E policy \in MachinePolicies :
           output = [machine |-> WorkflowMachine_new(workflow, policy),
                     call |-> NoResult, calls |-> 0]

\* the machine a call leaves and what it returned
Called(op, r) ==
    [machine |-> r.self,
     call |-> [op |-> op, before |-> output.machine.state, result |-> r.result],
     calls |-> output.calls + 1]

MachineStart ==
    /\ output.calls < MaxMachineCalls
    /\ output' = Called("start", WorkflowMachine_start(output.machine))
    /\ UNCHANGED <<input, codecVars, parserVars, serverVars>>

MachineStep ==
    /\ output.calls < MaxMachineCalls
    /\ output' = Called("step", WorkflowMachine_step(output.machine))
    /\ UNCHANGED <<input, codecVars, parserVars, serverVars>>

MachinePause ==
    /\ output.calls < MaxMachineCalls
    /\ output' = Called("pause", WorkflowMachine_pause(output.machine))
    /\ UNCHANGED <<input, codecVars, parserVars, serverVars>>

MachineResume ==
    /\ output.calls < MaxMachineCalls
    /\ output' = Called("resume", WorkflowMachine_resume(output.machine))
    /\ UNCHANGED <<input, codecVars, parserVars, serverVars>>

MachineCancel ==
    /\ output.calls < MaxMachineCalls
    /\ output' = Called("cancel", WorkflowMachine_cancel(output.machine))
    /\ UNCHANGED <<input, codecVars, parserVars, serverVars>>

-----------------------------------------------------------------------------
(* Subsystems that take no part in a specification stay in their idle state *)

CodecIdle  == frame = NoResult /\ dst = <<>> /\ flipped = -1 /\ decoded = NoResult
ParserIdle == src = <<>> /\ layout = NoResult /\ returned = <<>>
ServerIdle == ConnInit({})
RankIdle   == input = NoResult /\ output = NoResult

\* one served connection, with a peer that sends frames and noise
Init == ConnInit({1}) /\ CodecIdle /\ ParserIdle /\ RankIdle
Next ==
    \/ \E c \in Conns : SendFrame(c)
    \/ \E c \in Conns : SendNoise(c)
    \/ \E c \in Conns : ClientClose(c)
    \/ \E c \in Conns : ClientReset(c)
    \/ \E c \in Conns : ReadData(c)
    \/ \E c \in Conns : ReadEof(c)
    \/ \E c \in Conns : ReadError(c)
    \/ \E c \in Conns : Parse(c)
    \/ \E c \in Conns : HelloInsert(c)
Spec == Init /\ [][Next]_vars

InitCodec == CodecInit /\ ParserIdle /\ ServerIdle /\ RankIdle
NextCodec == Encode \/ Mutate \/ Decode
SpecCodec == InitCodec /\ [][NextCodec]_vars

InitDecode == DecodeInit /\ ParserIdle /\ ServerIdle /\ RankIdle
NextDecode == Decode
SpecDecode == InitDecode /\ [][NextDecode]_vars

\* two served connections, with peers that only shake hands
InitSessions == ConnInit({1, 2}) /\ CodecIdle /\ ParserIdle /\ RankIdle
NextSessions ==
    \/ \E c \in Conns : SendHello(c)
    \/ \E c \in Conns : ClientClose(c)
    \/ \E c \in Conns : ReadData(c)
    \/ \E c \in Conns : ReadEof(c)
    \/ \E c \in Conns : Parse(c)
    \/ \E c \in Conns : HelloInsert(c)
SpecSessions == InitSessions /\ [][NextSessions]_vars

\* one served connection whose reads return the stream in pieces
InitResync == ConnInit({1}) /\ CodecIdle /\ ParserIdle /\ RankIdle
NextResync ==
    \/ \E c \in Conns : SendStream(c)
    \/ \E c \in Conns : ReadSome(c)
    \/ \E c \in Conns : Parse(c)
    \/ \E c \in Conns : HelloInsert(c)
SpecResync == InitResync /\ [][NextResync]_vars

InitParser == ParserInit /\ CodecIdle /\ ServerIdle /\ RankIdle
NextParser == ParseCall
SpecParser == InitParser /\ [][NextParser]_vars

InitRank == RankInit /\ CodecIdle /\ ParserIdle /\ ServerIdle
NextRank == EvaluateDecision \/ Maximin
SpecRank == InitRank /\ [][NextRank]_vars

InitFlip == RankInit /\ CodecIdle /\ ParserIdle /\ ServerIdle
NextFlip == ComputeFlipDistances
SpecFlip == InitFlip /\ [][NextFlip]_vars

InitClassical == ClassicalInit /\ CodecIdle /\ ParserIdle /\ ServerIdle
NextClassical ==
    Nash \/ EvaluateDecision \/ Maximin \/ Pareto \/ BrownRobinson \/ RootBrownRobinson
SpecClassical == InitClassical /\ [][NextClassical]_vars

InitFloat == FloatInit /\ CodecIdle /\ ParserIdle /\ ServerIdle
NextFloat == FloatNormalize
SpecFloat == InitFloat /\ [][NextFloat]_vars

InitSemver == SemverInit /\ CodecIdle /\ ParserIdle /\ ServerIdle
NextSemver == MinorVersionForwardCompatible \/ PatchUpgradeReplayCompatible
SpecSemver == InitSemver /\ [][NextSemver]_vars

InitFixed == FixedInit /\ CodecIdle /\ ParserIdle /\ ServerIdle
NextFixed == FromF64 \/ FromPercent \/ FromRatio \/ FromOpsPerSec
SpecFixed == InitFixed /\ [][NextFixed]_vars

InitRun == RunInit /\ CodecIdle /\ ParserIdle /\ ServerIdle
NextRun ==
    \/ StartRun \/ Pause \/ Resume \/ Cancel \/ RecordCost \/ NextAction
    \/ ApplyToolResult \/ DrainEvents
SpecRun == InitRun /\ [][NextRun]_vars

InitMachine == MachineInit /\ CodecIdle /\ ParserIdle /\ ServerIdle
NextMachine ==
    \/ MachineStart \/ MachineStep \/ MachinePause \/ MachineResume \/ MachineCancel
SpecMachine == InitMachine /\ [][NextMachine]_vars

-----------------------------------------------------------------------------
(* Claims about the frame codec *)

\* C6: decoding a buffer that holds exactly encode(F) returns a frame equal to F
\* in every field and leaves the buffer empty.
C6_RoundTrip ==
    (decoded # NoResult /\ flipped = -1) =>
        /\ decoded.kind = "Frame"
        /\ decoded.frame = frame
        /\ dst = <<>>

C6_Witness ==
    /\ decoded # NoResult /\ flipped = -1
    /\ decoded.kind = "Frame"
    /\ frame.version_major = 65535
    /\ Len(frame.payload) = MaxPayloadLen

\* byte offset of the mutated bit inside encode(frame)
FlippedByte == flipped \div 8
\* the mutated bit was 0 in encode(frame), so the mutation set it
FlipSetsBit == (encode(frame)[FlippedByte + 1] \div (2 ^ (flipped % 8))) % 2 = 0

\* C7 (as stated): with any single bit of encode(F) flipped, decode raises CrcMismatch.
C7_AnyBitFlipIsCrcMismatch ==
    (decoded # NoResult /\ flipped >= 0) => decoded.kind = "CrcMismatch"

\* C7 (amended): a flipped bit in the version, flags, correlation id, payload or
\* CRC trailer raises CrcMismatch; in the magic it raises InvalidMagic; in the
\* message type it raises UnknownMessageType, or CrcMismatch when the value is
\* another known type; a bit set in the payload length gives need-more or
\* PayloadTooLarge.
C7_BitFlipDetected ==
    (decoded # NoResult /\ flipped >= 0) =>
        LET off == FlippedByte
            n   == Len(frame.payload)
        IN  /\ off \in 0..3 => decoded.kind = "InvalidMagic"
            /\ off \in (4..7) \cup (12..19) \cup (24..(27 + n))
                    => decoded.kind = "CrcMismatch"
            /\ off \in 8..11 => decoded.kind \in {"UnknownMessageType", "CrcMismatch"}
            /\ (off \in 20..23 /\ FlipSetsBit) => decoded.kind \in {"None", "PayloadTooLarge"}

C7_Witness ==
    /\ decoded # NoResult /\ flipped >= 0
    /\ FlippedByte >= HEADER_SIZE /\ FlippedByte < HEADER_SIZE + Len(frame.payload)
    /\ decoded.kind = "CrcMismatch"

-----------------------------------------------------------------------------
(* Claims about the resilient parser *)

FramesOf(results) ==
    LET hits == SelectSeq(results, LAMBDA r : r.kind = "Frame")
    IN  [i \in 1..Len(hits) |-> hits[i].frame]

\* C8 (as stated): for any garbage, the parser fed garbage || encode(F1) || encode(F2)
\* returns F1, then F2, and no other frame.
C8_ResyncAnyGarbage ==
    (Len(layout.frames) = 2 /\ Len(returned) = MaxCalls) =>
        FramesOf(returned) = layout.frames

\* C8 (amended): for any garbage that contains no occurrence of the magic prefix,
\* the parser fed garbage || encode(F1) || encode(F2) returns F1 on the first call,
\* F2 on the second, and no frame afterwards.
C8_ResyncMagicFreeGarbage ==
    (Len(layout.frames) = 2 /\ find_magic(layout.garbage) = -1) =>
        /\ FramesOf(returned) = SubSeq(layout.frames, 1, Min(Len(returned), 2))
        /\ \A i \in 1..Len(returned) : returned[i].kind = IF i <= 2 THEN "Frame" ELSE "None"

C8_Witness ==
    /\ Len(layout.frames) = 2
    /\ Len(layout.garbage) >= HEADER_SIZE /\ find_magic(layout.garbage) = -1
    /\ layout.frames[1] # layout.frames[2]
    /\ Len(returned) = 3
    /\ FramesOf(returned) = layout.frames

\* C9: for a buffer holding a frame with valid magic but unknown message type
\* followed by encode(F), repeated calls to the parser eventually return F.
C9_ResyncAfterUnknownType ==
    (layout.garbage = UnknownTypeFrame /\ Len(returned) = MaxCalls) =>
        \E i \in 1..Len(returned) :
            returned[i].kind = "Frame" /\ returned[i].frame = layout.frames[1]

-----------------------------------------------------------------------------
(* Server claims *)

Terminated(c) == pc[c] \in {"closed", "failed"}

\* the i-th frame handled on c has been dealt with, its response included
Done(c, i) == i < Len(handled[c]) \/ pc[c] \in {"parse", "read", "closed"}

\* what was written on c with the correlation id of f
Answers(c, f) == SelectSeq(out[c], LAMBDA r : r.correlation_id = f.correlation_id)

ErrorCodeOf(r) == U16Value(SubSeq(r.payload, 1, 2))

UnsupportedHello(f) ==
    /\ f.msg_type = "Hello"
    /\ ParseOk("Hello", f.payload)
    /\ ~supports_version(HelloPayload(f.payload),
                         PROTOCOL_VERSION_MAJOR, PROTOCOL_VERSION_MINOR)

\* C1: a Hello whose version range does not contain the server's version 1.0
\* is answered with exactly one Error frame, code UnsupportedVersion (101),
\* and with no HelloAck.
C1_UnsupportedVersionRejected ==
    \A c \in Conns : \A i \in 1..Len(handled[c]) :
        LET f == handled[c][i].frame
            a == Answers(c, f)
        IN  (UnsupportedHello(f) /\ Done(c, i)) =>
                /\ Len(a) = 1
                /\ a[1].msg_type = "Error"
                /\ ErrorCodeOf(a[1]) = UnsupportedVersion

\* C2: a connection starts in Disconnected, and when its first frame is not a
\* Hello the server answers with an Error frame and the connection state
\* becomes Error.
C2_FirstFrameMustBeHello ==
    \A c \in Conns :
        /\ Len(handled[c]) = 0 => connection_state[c] = "Disconnected"
        /\ (Len(handled[c]) >= 1 /\ handled[c][1].frame.msg_type # "Hello" /\ Done(c, 1)) =>
               LET a == Answers(c, handled[c][1].frame)
               IN  /\ Len(a) >= 1
                   /\ a[1].msg_type = "Error"
                   /\ connection_state[c] = "Error"

\* C3: in Ready, a frame whose type is not ExecRequest, HealthRequest or
\* Heartbeat is answered with an Error frame of the same correlation id, the
\* connection stays Ready, and a later ExecRequest still gets an ExecResult.
C3_UnexpectedTypeInReady ==
    \A c \in Conns : \A i \in 1..Len(handled[c]) :
        LET h == handled[c][i]
            a == Answers(c, h.frame)
        IN  (/\ h.state = "Ready"
             /\ h.frame.msg_type \notin {"ExecRequest", "HealthRequest", "Heartbeat"}
             /\ Done(c, i)) =>
                /\ Len(a) = 1
                /\ a[1].msg_type = "Error"
                /\ connection_state[c] = "Ready"
                /\ \A j \in (i + 1)..Len(handled[c]) :
                       LET g == handled[c][j].frame
                           b == Answers(c, g)
                       IN  (/\ g.msg_type = "ExecRequest"
                            /\ ParseOk("ExecRequest", g.payload)
                            /\ Done(c, j)) =>
                               Len(b) = 1 /\ b[1].msg_type = "ExecResult"

\* C4: once a connection has terminated, for whatever reason, the connection
\* table holds no entry for a session id assigned on that connection.
C4_TerminatedLeavesNoEntry ==
    \A c \in Conns : Terminated(c) => assigned[c] \cap connections = {}

IsRequest(f) == f.msg_type \in {"ExecRequest", "HealthRequest"}

\* correlation ids of the requests the peer sent on c, in the order sent; the
\* transport delivers bytes in that order
RequestIds(c) ==
    LET reqs == SelectSeq(sent[c], IsRequest)
    IN  [i \in 1..Len(reqs) |-> reqs[i].correlation_id]

\* correlation ids of the frames written on c in answer to a request, in the
\* order written
ResponseIds(c) ==
    LET ids == {sent[c][i].correlation_id : i \in {k \in 1..Len(sent[c]) : IsRequest(sent[c][k])}}
        rs == SelectSeq(out[c], LAMBDA r : r.correlation_id \in ids)
    IN  [i \in 1..Len(rs) |-> rs[i].correlation_id]

IsPrefix(s, t) == Len(s) <= Len(t) /\ s = SubSeq(t, 1, Len(s))

\* frames are handled in the order received (the peer numbers what it sends, so
\* the correlation ids of handled frames increase) and the responses to the
\* requests that were handled are written in that order
HandledInReceiveOrder ==
    \A c \in Conns :
        /\ \A i, j \in 1..Len(handled[c]) :
               i < j => U32Value(handled[c][i].frame.correlation_id)
                          < U32Value(handled[c][j].frame.correlation_id)
        /\ \A i, j \in 1..Len(ResponseIds(c)) :
               i < j => U32Value(ResponseIds(c)[i]) < U32Value(ResponseIds(c)[j])

\* C5: frames are handled in the order their bytes were received, and the i-th
\* response written answers the i-th ExecRequest/HealthRequest received: the
\* responses written so far answer, one for one and in order, the first
\* requests of the stream.
C5_ResponsesInRequestOrder ==
    HandledInReceiveOrder /\ \A c \in Conns : IsPrefix(ResponseIds(c), RequestIds(c))

-----------------------------------------------------------------------------
(* Decision kernel claims *)

\* the ids of a ranking, in rank order
RankedIds(result) ==
    IF "ranked_actions" \in DOMAIN result
    THEN [i \in 1..Len(result.ranked_actions) |-> result.ranked_actions[i].action_id]
    ELSE result.ranking

\* the score a ranking sorts by
RankedScore(result, i) ==
    IF "ranked_actions" \in DOMAIN result
    THEN result.ranked_actions[i].composite_score
    ELSE result.min_utility[result.ranking[i]]

\* the input with its actions listed in byte-wise id order and its scenarios
\* and outcomes listed backwards
Relisted(in) ==
    [actions |-> sort_by(in.actions, {pr \in Range(in.actions) \X Range(in.actions) :
                                          str_cmp(pr[1].id, pr[2].id) = "Less"}),
     scenarios |-> [i \in 1..Len(in.scenarios) |-> in.scenarios[Len(in.scenarios) + 1 - i]],
     outcomes |-> [i \in 1..Len(in.outcomes) |-> in.outcomes[Len(in.outcomes) + 1 - i]]]

Rerun(api, in) == IF api = "maximin" THEN maximin(in) ELSE evaluate_decision(in)

\* C10: of two ranked actions with equal scores the one with the byte-wise
\* smaller id comes first, and the ranking does not depend on the order in
\* which the input lists its actions, scenarios and outcomes.
C10_TieBreakById ==
    (output # NoResult /\ output.result.kind = "Ok") =>
        LET res == output.result
            ids == RankedIds(res)
        IN  /\ \A i, j \in 1..Len(ids) :
                   (i < j /\ RankedScore(res, i) = RankedScore(res, j))
                       => str_cmp(ids[i], ids[j]) # "Greater"
            /\ ids = RankedIds(Rerun(output.api, Relisted(input)))

\* a three-way tie between actions listed out of id order, ranked by
\* evaluate_decision
C10_Witness ==
    /\ output # NoResult /\ output.api = "evaluate_decision" /\ output.result.kind = "Ok"
    /\ LET ra == output.result.ranked_actions
       IN  /\ Len(ra) = 3
           /\ ra[1].composite_score = ra[3].composite_score
           /\ ra[1].action_id # ra[2].action_id /\ ra[2].action_id # ra[3].action_id
           /\ input.actions[1].id = ra[3].action_id

\* C11: for every input evaluate_decision accepts, with N actions, the ranked
\* list holds each action id of the input exactly once, the ranks are 1..N in
\* list order, and recommended is true on the rank-1 entry only.
C11_RankedListWellFormed ==
    (output # NoResult /\ output.api = "evaluate_decision" /\ output.result.kind = "Ok") =>
        LET ra == output.result.ranked_actions
            N == Len(input.actions)
        IN  /\ Len(ra) = N
            /\ \A a \in Range(input.actions) :
                   Cardinality({i \in 1..Len(ra) : ra[i].action_id = a.id}) = 1
            /\ \A i \in 1..Len(ra) : ra[i].rank = i /\ (ra[i].recommended <=> i = 1)

-----------------------------------------------------------------------------
(* Classical algorithm claims *)

\* C12: under nash the recommended action is the first element of the
\* returned ranking, also when a saddle point overrides the recommendation.
C12_NashRecommendsRankOne ==
    (output # NoResult /\ output.api = "nash" /\ output.result.kind = "Ok") =>
        output.result.recommended_action = output.result.ranking[1]

\* a saddle point exists, the recommendation is its action, and the ranking
\* lists several actions, not in the order the input lists them
C12_Witness ==
    /\ output # NoResult /\ output.api = "nash" /\ output.result.kind = "Ok"
    /\ Len(output.result.nash_equilibria) > 0
    /\ output.result.recommended_action = output.result.nash_equilibria[1][1]
    /\ Len(output.result.ranking) = 3
    /\ output.result.ranking # ActionsOf(input)
    /\ output.result.ranking[1] # output.result.ranking[2]

\* the (action, state) pairs of the input with no utility among the outcomes
MissingCells(in) ==
    {pr \in Range(ActionsOf(in)) \X Range(StatesOf(in)) :
        \A k \in 1..Len(in.outcomes) : <<in.outcomes[k][1], in.outcomes[k][2]>> # pr}

\* C13: if some (action, state) pair of the input has no utility among the
\* outcomes, evaluation fails with a MissingOutcome validation error and
\* returns no ranking; a missing cell is never filled with a default utility.
C13_MissingCellRejected ==
    (output # NoResult /\ MissingCells(input) # {}) =>
        /\ output.result.kind = "Err"
        /\ output.result.error = "MissingOutcome"

\* C14: evaluation is total: for every input and every algorithm it returns a
\* named validation error or a complete ranking and never aborts; an input
\* with no state is rejected with a validation error and an input with no
\* action with NoActions.
C14_EvaluationTotal ==
    output # NoResult =>
        /\ output.result.kind \in {"Ok", "Err"}
        /\ Len(input.actions) = 0 =>
               (output.result.kind = "Err" /\ output.result.error = "NoActions")
        /\ Len(input.scenarios) = 0 => output.result.kind = "Err"

\* the input with the outcomes at positions i and j exchanged
SwapOutcomes(in, i, j) ==
    [in EXCEPT !.outcomes = [k \in 1..Len(in.outcomes) |->
        IF k = i THEN in.outcomes[j] ELSE IF k = j THEN in.outcomes[i] ELSE in.outcomes[k]]]

\* the outcomes of the input list no (action, scenario) pair twice
NoPairRepeated(in) ==
    \A i, j \in 1..Len(in.outcomes) :
        (in.outcomes[i][1] = in.outcomes[j][1] /\ in.outcomes[i][2] = in.outcomes[j][2]) => i = j

\* C15: two decision inputs that differ only in the order of their outcomes
\* triples (no pair repeated) have the same input fingerprint; stated for the
\* exchange of two triples, which generates every reordering.
C15_FingerprintIgnoresOutcomeOrder ==
    (output # NoResult /\ output.api = "evaluate_decision" /\ output.result.kind = "Ok"
        /\ NoPairRepeated(input)) =>
        \A i, j \in 1..Len(input.outcomes) :
            evaluate_decision(SwapOutcomes(input, i, j)).determinism_fingerprint
                = output.result.determinism_fingerprint

\* the action ids of the input that some other action weakly beats in every
\* state and strictly beats in at least one
DominatedIds(in) ==
    LET U == OutcomesOf(in)
        S == Range(StatesOf(in))
    IN  {a \in Range(ActionsOf(in)) :
            \E b \in Range(ActionsOf(in)) \ {a} :
                /\ \A st \in S : U[<<b, st>>] >= U[<<a, st>>]
                /\ \E st \in S : U[<<b, st>>] > U[<<a, st>>]}

\* C16: under pareto the ranking is the non-dominated actions in ascending id
\* order followed by the dominated actions in ascending id order, and no
\* action of the frontier is dominated.
C16_ParetoRanking ==
    (output # NoResult /\ output.api = "pareto" /\ output.result.kind = "Ok") =>
        LET r == output.result.ranking
            dom == DominatedIds(input)
            k == Cardinality({i \in 1..Len(r) : r[i] \notin dom})
        IN  /\ Range(r) = Range(ActionsOf(input))
            /\ \A i \in 1..Len(r) : (r[i] \notin dom) <=> (i <= k)
            /\ \A i, j \in 1..Len(r) :
                   (i < j /\ (j <= k \/ i > k)) => str_cmp(r[i], r[j]) # "Greater"
            /\ (Cardinality(Range(r)) = Len(input.actions)) => Len(r) = Len(input.actions)
            /\ output.result.pareto_frontier = SubSeq(r, 1, k)
            /\ output.result.recommended_action = r[1]

\* the dominated action has the smallest id and is ranked last, behind two
\* frontier actions that the input lists in descending id order
C16_Witness ==
    /\ output # NoResult /\ output.api = "pareto" /\ output.result.kind = "Ok"
    /\ Len(output.result.ranking) = 3
    /\ Len(output.result.pareto_frontier) = 2
    /\ str_cmp(output.result.ranking[3], output.result.ranking[1]) = "Less"
    /\ output.result.ranking[3] \in DominatedIds(input)
    /\ input.actions[1].id = output.result.ranking[2]
    /\ input.actions[2].id = output.result.ranking[1]

\* C17: in every round of Brown-Robinson fictitious play a* is the action
\* with the smallest id among those with the maximal accumulated payoff and
\* s* the state with the smallest id among those with the minimal accumulated
\* payoff, whatever the order in which the input lists actions and states.
C17_BrownRobinsonTieBreakById ==
    (output # NoResult /\ output.api \in {"brown_robinson", "root_brown_robinson"}
        /\ output.result.kind = "Ok") =>
        LET actions == ActionsOf(input)
            states == StatesOf(input)
        IN  \A r \in 1..Len(output.result.rounds) :
                LET rd == output.result.rounds[r]
                IN  /\ \A i \in 1..Len(actions) :
                           rd.agent_accum[i] = rd.agent_accum[rd.best_action_idx]
                               => str_cmp(actions[rd.best_action_idx], actions[i]) # "Greater"
                    /\ \A j \in 1..Len(states) :
                           rd.nature_accum[j] = rd.nature_accum[rd.best_state_idx]
                               => str_cmp(states[rd.best_state_idx], states[j]) # "Greater"

\* ranked action x is at least as good as ranked action y on every criterion
WeaklyDominates(x, y) ==
    /\ x.score_worst_case >= y.score_worst_case
    /\ x.score_minimax_regret <= y.score_minimax_regret
    /\ x.score_adversarial >= y.score_adversarial

\* C18: for any two actions a and b of an accepted input, if a is at least as
\* good as b on the worst case, the max regret and the adversarial worst case,
\* the composite score of a is at least the composite score of b.
C18_CompositeMonotone ==
    (output # NoResult /\ output.api = "evaluate_decision" /\ output.result.kind = "Ok") =>
        LET ra == output.result.ranked_actions
        IN  \A i, j \in 1..Len(ra) :
                WeaklyDominates(ra[i], ra[j]) => ra[i].composite_score >= ra[j].composite_score

\* three actions with three different composite scores: the first dominates
\* the last, strictly on the worst case, while the second beats the first on
\* the adversarial worst case
C18_Witness ==
    /\ output # NoResult /\ output.api = "evaluate_decision" /\ output.result.kind = "Ok"
    /\ LET ra == output.result.ranked_actions
       IN  /\ Len(ra) = 3
           /\ WeaklyDominates(ra[1], ra[3])
           /\ ra[1].score_worst_case > ra[3].score_worst_case
           /\ ra[1].composite_score > ra[2].composite_score
           /\ ra[2].composite_score > ra[3].composite_score
           /\ ra[2].score_adversarial > ra[1].score_adversarial
           /\ ~WeaklyDominates(ra[1], ra[2])

\* C19: float_normalize is idempotent on every f64 value, including NaN, the
\* infinities, negative zero and the largest and smallest finite values:
\* applied to one of its own results it returns that result.
C19_FloatNormalizeIdempotent ==
    (output # NoResult /\ output.api = "float_normalize" /\ output.calls >= 2) =>
        output.result = output.arg

\* a version string of exactly three dot-separated unsigned decimal integers,
\* each of at least one digit and at most u32::MAX = 4294967295
WellFormedVersion(version) ==
    LET parts == split(version)
        u32_max == <<52, 50, 57, 52, 57, 54, 55, 50, 57, 53>>
        significant(p) == SubSeq(p, MinOf({i \in 1..Len(p) : p[i] # 48 \/ i = Len(p)}), Len(p))
    IN  /\ Len(parts) = 3
        /\ \A k \in 1..3 :
               /\ Len(parts[k]) > 0
               /\ \A i \in 1..Len(parts[k]) : parts[k][i] \in 48..57
               /\ \/ Len(significant(parts[k])) < Len(u32_max)
                  \/ /\ Len(significant(parts[k])) = Len(u32_max)
                     /\ str_cmp(significant(parts[k]), u32_max) # "Greater"

\* C20: if either version string given to minor_version_forward_compatible
\* or patch_upgrade_replay_compatible is not exactly three dot-separated
\* unsigned decimal integers (wrong number of segments, an empty segment, a
\* sign or other non-digit character, a value too large), the predicate
\* returns false.
C20_MalformedVersionIncompatible ==
    (output # NoResult
        /\ output.api \in {"minor_version_forward_compatible", "patch_upgrade_replay_compatible"}
        /\ (~WellFormedVersion(input[1]) \/ ~WellFormedVersion(input[2]))) =>
        output.result = FALSE

-----------------------------------------------------------------------------
(* Claims about the fixed-point constructors *)

\* a finite argument outside the range of values the type of the
\* constructor can hold: Q32.32 holds magnitudes below 2^31, basis points
\* -32768 .. 32767 hundredths, parts per million an i32 of millionths, a
\* throughput 0 .. i64::MAX millionths
OutOfRange(api, x) ==
    LET hundredths == round(mul_pow10(x, 2))
        millionths == round(mul_pow10(x, 6))
        above(y, m, e) == y.class = "inf" \/ (y.m # 0 /\ MagnitudeAbove(y.m, y.e, m, e))
    IN  CASE api = "FixedQ32_32::from_f64" -> above(x, 214748364, 1)
          [] api = "FixedBps::from_percent" ->
                 above(hundredths, IF hundredths.neg THEN 32768 ELSE 32767, 0)
          [] api = "FixedPpm::from_ratio" ->
                 above(millionths, 214748364, 1)
          [] api = "FixedThroughput::from_ops_per_sec" ->
                 \/ (millionths.class = "finite" /\ millionths.neg /\ millionths.m # 0)
                 \/ above(millionths, 922337203, 10)

\* C21: each of FixedQ32_32::from_f64, FixedBps::from_percent,
\* FixedPpm::from_ratio and FixedThroughput::from_ops_per_sec returns None
\* when its argument is NaN, an infinity, or a value outside the range the
\* type can represent.
C21_FloatConstructorsReject ==
    (output # NoResult
        /\ output.api \in {"FixedQ32_32::from_f64", "FixedBps::from_percent",
                           "FixedPpm::from_ratio", "FixedThroughput::from_ops_per_sec"}
        /\ (input.class # "finite" \/ OutOfRange(output.api, input))) =>
        output.result = None

-----------------------------------------------------------------------------
(* Claims about the run handle *)

\* the last n elements of s, all of s when it has fewer
LastN(s, n) == SubSeq(s, IF Len(s) > n THEN Len(s) - n + 1 ELSE 1, Len(s))

\* the numbers a caller can read from a RunHandle: steps_executed() and
\* the fields of budget()
VisibleNumbers(run) ==
    {run.steps_executed, run.budget.spent_usd, run.budget.reserved_usd,
     Len(run.budget.step_costs)}

\* the queue never exceeds MAX_PENDING_EVENTS
QueueBounded == output # NoResult => Len(output.run.pending_events) <= MAX_PENDING_EVENTS

\* a call other than drain_events leaves the most recent events, in the
\* order they were pushed
QueueKeepsMostRecent ==
    [][(output # NoResult /\ output' # NoResult /\ output'.call.op # "drain_events") =>
           output'.run.pending_events =
               LastN(output.run.pending_events \o output'.run.pushed, MAX_PENDING_EVENTS)]_vars

\* C22: the pending-event queue of a run never holds more than
\* MAX_PENDING_EVENTS events; a push onto a full queue drops the oldest
\* event, so the queue holds the most recent events in their original order;
\* and the number of events dropped is recorded in a counter the caller can
\* read.
C22_BoundedQueueCountsDrops ==
    [][output' # NoResult =>
           /\ Len(output'.run.pending_events) <= MAX_PENDING_EVENTS
           /\ (output # NoResult /\ output'.call.op # "drain_events") =>
                  output'.run.pending_events =
                      LastN(output.run.pending_events \o output'.run.pushed,
                            MAX_PENDING_EVENTS)
           /\ output'.run.dropped \in VisibleNumbers(output'.run)]_vars

\* the status a call asks RunHandle::transition for
TargetOf(op) ==
    CASE op = "start_run_with_controls" -> "Running"
      [] op = "pause" -> "Paused"
      [] op = "resume" -> "Running"
      [] op = "cancel" -> "Cancelled"

\* the transitions of the run status machine
AllowedTransitions ==
    { <<"Created", "Running">>, <<"Running", "Paused">>, <<"Paused", "Running">>,
      <<"Running", "Cancelled">>, <<"Paused", "Cancelled">>,
      <<"Running", "Completed">>, <<"Running", "Failed">> }

\* C23: the run status machine accepts exactly Created->Running,
\* Running->Paused, Paused->Running, Running->Cancelled, Paused->Cancelled,
\* Running->Completed and Running->Failed; any other transition is rejected
\* with an Invalid error, leaves the status unchanged and queues no event.
C23_RunStatusTransitions ==
    (output # NoResult
        /\ output.call.op \in {"start_run_with_controls", "pause", "resume", "cancel"}) =>
        IF <<output.call.before.status, TargetOf(output.call.op)>> \in AllowedTransitions
        THEN /\ output.call.result.kind = "Ok"
             /\ output.run.status.status = TargetOf(output.call.op)
             /\ Len(output.run.pushed) = 1
        ELSE /\ output.call.result.kind = "Err"
             /\ output.call.result.error.type = "Invalid"
             /\ output.run.status = output.call.before
             /\ output.run.pushed = <<>>

-----------------------------------------------------------------------------
(* Claims about the sensitivity analysis *)

\* |U[a1][s] - U[a2][s]| / 100 in units of 1e-9, a1 and a2 the actions of
\* rank 1 and rank 2
TopTwoDistance(decision, sc) ==
    LET table == decision.trace.utility_table
        d == table[decision.ranked_actions[1].action_id][sc]
                 - table[decision.ranked_actions[2].action_id][sc]
    IN  (IF d < 0 THEN -d ELSE d) * (FLOAT_PRECISION_INV \div 100)

\* C24: the flip distance reported for a state s is |U[a1][s] - U[a2][s]|
\* (scaled by the fixed factor 1/100), a1 the rank-1 and a2 the rank-2 action
\* of the ranking, and the list is sorted ascending by distance, ties by
\* state id.  Stated for inputs of at least two actions with distinct ids.
C24_FlipDistanceToRankTwo ==
    (output # NoResult /\ output.api = "compute_flip_distances"
        /\ Len(input.actions) >= 2
        /\ \A i, j \in 1..Len(input.actions) :
               input.actions[i] = input.actions[j] => i = j) =>
        /\ \A k \in 1..Len(output.result) :
               output.result[k].flip_distance =
                   TopTwoDistance(output.output, output.result[k].variable_id)
        /\ \A k \in 1..(Len(output.result) - 1) :
               \/ output.result[k].flip_distance < output.result[k + 1].flip_distance
               \/ /\ output.result[k].flip_distance = output.result[k + 1].flip_distance
                  /\ str_cmp(output.result[k].variable_id,
                             output.result[k + 1].variable_id) # "Greater"

-----------------------------------------------------------------------------
(* Claims about the effect of Frame::decode on its buffer *)

\* C25: Frame::decode removes bytes from the buffer only when it returns a
\* frame or raises CrcMismatch; when it returns need-more (as it does for a
\* buffer shorter than the 24-byte header) or raises InvalidMagic,
\* UnknownMessageType or PayloadTooLarge, the buffer is left as it was.
C25_DecodePeeksHeader ==
    [][(decoded = NoResult /\ decoded' # NoResult) =>
           /\ decoded'.kind \in {"None", "InvalidMagic", "UnknownMessageType",
                                "PayloadTooLarge"} => dst' = dst
           /\ dst' # dst => decoded'.kind \in {"Frame", "CrcMismatch"}
           /\ Len(dst) < HEADER_SIZE => decoded'.kind = "None"]_vars

\* decode raised an error found in the header, or saw a complete header of
\* an incomplete frame, and the buffer still holds the bytes
C25_Witness ==
    /\ frame = NoResult /\ decoded # NoResult
    /\ \/ decoded.kind \in {"InvalidMagic", "UnknownMessageType", "PayloadTooLarge"}
       \/ decoded.kind = "None" /\ Len(dst) >= HEADER_SIZE
    /\ Len(dst) >= HEADER_SIZE

-----------------------------------------------------------------------------
(* Claims about recovery and sessions on a served connection *)

\* C26: a frame whose CRC check fails is dropped as a whole and nothing more
\* is dropped: the buffer is left holding exactly the bytes that followed the
\* frame, so that when an intact frame F2 follows it in the buffer, F2 is the
\* frame the next pass of the loop decodes and handles.
C26_CrcFailureDropsOneFrame ==
    [][\A c \in Conns :
          LET r == decode(buf[c])
          IN  (pc[c] = "parse" /\ r.kind = "CrcMismatch" /\ buf'[c] # buf[c]) =>
                  /\ buf'[c] = r.src
                  /\ decode(r.src).kind = "Frame" =>
                         /\ decode(buf'[c]).kind = "Frame"
                         /\ decode(buf'[c]).frame = decode(r.src).frame]_vars

\* C27: a Hello handled on a connection that is already Ready is answered
\* with an Error frame, takes no new session id and adds no entry to the
\* connection table: the one id assigned on the connection stays its session
\* id.
C27_HelloInReadyRejected ==
    \A c \in Conns : \A i \in 1..Len(handled[c]) :
        LET h == handled[c][i]
            a == Answers(c, h.frame)
        IN  (h.state = "Ready" /\ h.frame.msg_type = "Hello" /\ Done(c, i)) =>
                /\ Len(a) = 1
                /\ a[1].msg_type = "Error"
                /\ assigned[c] = {session_id[c]}
                /\ connections \subseteq {session_id[c]}


IsHelloAck(r) == r.msg_type = "HelloAck"

\* the session id a HelloAck carries
AckedSession(r) == r.payload[3]

\* C28: under any interleaving of the handshakes of concurrently served
\* connections no two HelloAcks carry the same session id, and every session
\* established on a connection still being served has its own entry in the
\* connection table.
C28_SessionIdsUnique ==
    /\ \A c, d \in Conns : \A i \in 1..Len(out[c]) : \A j \in 1..Len(out[d]) :
           (IsHelloAck(out[c][i]) /\ IsHelloAck(out[d][j]) /\ <<c, i>> # <<d, j>>) =>
               AckedSession(out[c][i]) # AckedSession(out[d][j])
    /\ \A c \in Conns :
           ~Terminated(c) =>
               /\ {AckedSession(out[c][i]) : i \in {k \in 1..Len(out[c]) : IsHelloAck(out[c][k])}}
                      \subseteq connections
               /\ Cardinality(assigned[c] \cap connections)
                      = Len(SelectSeq(out[c], IsHelloAck))

\* connection 1 took session id 1 and is between the two lock scopes of its
\* handshake while connection 2, which took id 2 after it, is already Ready
C28_Witness ==
    /\ pc[1] = "insert" /\ pending[1].id = 1
    /\ connection_state[2] = "Ready" /\ session_id[2] = 2
    /\ connections = {2}
    /\ Len(SelectSeq(out[2], IsHelloAck)) = 1


\* every byte the peer sent on c has been read and the frame loop has gone
\* through the buffer
AllArrived(c) == sent[c] # <<>> /\ wire[c] = <<>> /\ pc[c] = "read"

\* C29: resynchronisation never discards bytes of a well-formed frame,
\* however the stream is split into reads: for a stream garbage || encode(F),
\* once all bytes have arrived and been processed, F has been handled.
C29_ResyncKeepsFrame ==
    \A c \in Conns :
        AllArrived(c) =>
            \A k \in 1..Len(sent[c]) :
                sent[c][k] # Noise => \E i \in 1..Len(handled[c]) : handled[c][i].frame = sent[c][k]

\* the frame was handled after garbage was skipped
C29_FrameHandledAfterGarbage ==
    \E c \in Conns : AllArrived(c) /\ Len(handled[c]) = 1 /\ buf[c] = <<>>

-----------------------------------------------------------------------------
(* Claims about the workflow machine *)

\* C30: Cancelled and Completed are absorbing states of the workflow machine:
\* once the machine is in either, no start, step, pause, resume or cancel
\* call changes its state.
C30_TerminalStatesAbsorb ==
    [][output.machine.state \in {MachineCancelled, MachineCompleted} =>
           output'.machine.state = output.machine.state]_vars

\* a call was made on a machine that was Cancelled or Completed
C30_CalledAfterTerminal ==
    /\ output.call # NoResult
    /\ output.call.before \in {MachineCancelled, MachineCompleted}
    /\ output.call.op \in {"step", "pause", "resume", "cancel"}

====
